---------------------------- MODULE Spec2Model ----------------------------
(***************************************************************************)
(* Model of the trip-planning backend (FastAPI handlers over MongoDB).     *)
(*                                                                         *)
(* The document store is the only shared state.  Every handler is a        *)
(* sequence of store round trips (find_one, update_one, ...) separated by  *)
(* awaits; one round trip together with the synchronous code that follows  *)
(* it up to the next await is one step of the handler.  A handler is an    *)
(* operator  h(w, rq)  from the store w and the request state rq to the    *)
(* store and request state after that step.                                *)
(*                                                                         *)
(* Spec      trips_router.py, one request at a time (the whole handler is  *)
(*           one action).                                                  *)
(* SpecSubs  the routers of the three embedded collections, one request at *)
(*           a time.                                                       *)
(* SpecConc  requests in flight together, interleaved at their awaits.     *)
(***************************************************************************)
EXTENDS Integers, Naturals, Sequences, FiniteSets, TLC

VARIABLES
    trips,      \* db.trips: _id -> trip document
    users,      \* db.users: the user documents, in insertion order
    password_resets, \* db.password_resets: the reset requests, in insertion order
    nextOid,    \* the next ObjectId generated
    now,        \* the clock
    reqs,       \* the requests in flight, each with its handler's position
    active_connections, \* manager.active_connections: trip_id -> list of WebSocket
    sockets,    \* each WebSocket as its client holds it: new, open or broken
    tasks       \* each WebSocket's websocket_endpoint coroutine

wsvars == <<active_connections, sockets, tasks>>
dbvars == <<trips, users, password_resets, nextOid, now, reqs>>
vars == <<trips, users, password_resets, nextOid, now, reqs,
          active_connections, sockets, tasks>>

(***************************************************************************)
(* Bounds of the model.                                                    *)
(***************************************************************************)
\* ObjectIds the store and the handlers may generate (trips and sub-resources)
MaxOid == 3
\* trips stored at one time
MaxTrips == 1
\* requests in flight at the same time
MaxInflight == 2
\* significant bits the model keeps of a float (a Python float keeps 53)
Precision == 3
\* expenses of the trip whose summary is computed
MaxExpenses == 3
\* packing items of the trip whose categories are computed
MaxItems == 3
\* the latest reading of the clock
MaxNow == 2
\* the texts one websocket client sends
MaxTexts == 1

Oids == 1..MaxOid

(***************************************************************************)
(* Identifiers.  An ObjectId is a number; the string form a client sends   *)
(* in a path or body is a record: lower-case hex (what str(ObjectId)       *)
(* prints), upper-case hex (accepted by ObjectId(...), which parses hex    *)
(* case-insensitively), or a malformed string.                             *)
(***************************************************************************)
IdStr(n) == [form |-> "lower", hex |-> n]
UpperIdStr(n) == [form |-> "upper", hex |-> n]
Malformed == [form |-> "malformed", hex |-> 0]

\* bson ObjectId.is_valid(s)
is_valid(s) == s.form # "malformed"
\* bson ObjectId(s)
ObjectId(s) == s.hex
\* str(ObjectId)
str(n) == IdStr(n)
\* PyObjectId.validate on a string: str(ObjectId(v))
PyObjectId(s) == str(ObjectId(s))

\* Optional[X]: None is <<>>, a value x is <<x>>
None == <<>>
Some(x) == <<x>>

(***************************************************************************)
(* Users.  The users collection is a list of documents in insertion order. *)
(***************************************************************************)
UserIds == {"u1", "u2", "u3"}
Emails == {"e1", "e2", "e3", "e0"}

\* values of the store carry their type: an ObjectId and a string are
\* different values even when the string is the ObjectId's hex form.
\* User identifiers are written as names "u1", "u2", ...
BsonObjectId(name) == [bson |-> "objectId", value |-> name]
BsonString(s) == [bson |-> "string", value |-> s]

\* the ObjectIds insert_one generates for the documents of db.users, in the
\* order of insertion
UserOidNames == <<"u1", "u2", "u3", "u4", "u5", "u6", "u7", "u8">>

\* pwd_context.hash(password): a bcrypt hash of the password
get_password_hash(password) == [scheme |-> "bcrypt", secret |-> password]
\* hashed_password = "": the value create_oauth_user stores
EmptyHash == [scheme |-> "", secret |-> ""]

\* pwd_context.verify(plain_password, hashed_password): a string that is no
\* hash of a scheme of the context raises UnknownHashError
verify_password(plain_password, hashed_password) ==
    IF hashed_password.scheme = "" THEN "UnknownHashError"
    ELSE IF hashed_password.secret = plain_password THEN "True" ELSE "False"

\* u1 and u2 have registered with passwords p1 and p2, u3 has logged in
\* through an OAuth provider
InitUsers == << [_id |-> BsonObjectId("u1"), email |-> "e1",
                 hashed_password |-> get_password_hash("p1")],
                [_id |-> BsonObjectId("u2"), email |-> "e2",
                 hashed_password |-> get_password_hash("p2")],
                [_id |-> BsonObjectId("u3"), email |-> "e3",
                 hashed_password |-> EmptyHash] >>

\* User(**doc): id is the string form of the document's _id
User(doc) ==
    [id |-> doc["_id"].value, email |-> doc.email,
     hashed_password |-> doc.hashed_password]

\* db.users.find_one({"email": email}): the first matching document
find_user(w, email) ==
    LET hits == {i \in 1..Len(w.users) : w.users[i].email = email}
    IN  IF hits = {} THEN None
        ELSE Some(w.users[CHOOSE i \in hits : \A j \in hits : i <= j])

(***************************************************************************)
(* Sequence helpers.                                                       *)
(***************************************************************************)
Range(s) == {s[i] : i \in 1..Len(s)}
Map(s, F(_)) == [i \in 1..Len(s) |-> F(s[i])]
\* index of the first element satisfying T, 0 if none
FirstIdx(s, T(_)) ==
    LET hits == {i \in 1..Len(s) : T(s[i])}
    IN  IF hits = {} THEN 0 ELSE CHOOSE i \in hits : \A j \in hits : i <= j

(***************************************************************************)
(* Documents and validated models.                                         *)
(*                                                                         *)
(* A stored sub-resource (activity, expense, packing item) is the dict the *)
(* handler wrote: Model.dict() gives the field "id" and the other fields,  *)
(* and the handler adds the key "_id".  Of the fields of the Python models *)
(* the model keeps: Activity title, order; Expense amount, category;       *)
(* PackingItem category, packed; Trip title, budget, owner_id,             *)
(* collaborators, the three collections, created_at and updated_at.        *)
(***************************************************************************)
Collections == {"activities", "expenses", "packing_items"}

SubModel_by_name(d) ==
    [f \in (DOMAIN d \ {"_id"}) \cup {"id"} |->
        IF f = "id"
        THEN IF "id" \in DOMAIN d THEN PyObjectId(d["id"]) ELSE str(d["_id"])
        ELSE d[f]]

\* Activity(**d), Expense(**d), PackingItem(**d): field id has alias "_id";
\* with populate_by_name the alias is looked up first, then the name "id"
SubModel(d) ==
    [f \in (DOMAIN d \ {"_id"}) \cup {"id"} |->
        IF f = "id"
        THEN IF "_id" \in DOMAIN d THEN str(d["_id"]) ELSE PyObjectId(d["id"])
        ELSE d[f]]

\* model.dict() followed by dict["_id"] = oid
WithId(m, oid) ==
    [f \in DOMAIN m \cup {"_id"} |-> IF f = "_id" THEN oid ELSE m[f]]

\* Trip(**trip) for the document stored under _id = tid
Trip(tid, doc) ==
    [id            |-> str(tid),
     title         |-> doc.title,
     budget        |-> doc.budget,
     owner_id      |-> doc.owner_id,
     collaborators |-> doc.collaborators,
     activities    |-> Map(doc.activities, SubModel),
     expenses      |-> Map(doc.expenses, SubModel),
     packing_items |-> Map(doc.packing_items, SubModel),
     created_at    |-> doc.created_at,
     updated_at    |-> doc.updated_at]

(***************************************************************************)
(* The store: w.trips maps the _id of each stored trip to its document,    *)
(* w.users is the users collection, w.oid the next ObjectId that           *)
(* ObjectId() or insert_one generates, w.now the clock.                    *)
(***************************************************************************)
\* db.trips.find_one({"_id": tid})
find_one(w, tid) ==
    IF tid \in DOMAIN w.trips THEN Some(w.trips[tid]) ELSE None

\* a filter {"_id": tid}, and a filter {"_id": tid, "<coll>._id": oid}
ById(tid) == [_id |-> tid, coll |-> "", oid |-> 0]
ByElement(tid, coll, oid) == [_id |-> tid, coll |-> coll, oid |-> oid]

\* {"$push": {field: x}}
push(doc, field, x) == [doc EXCEPT ![field] = Append(@, x)]

pull_every(doc, coll, oid) == [doc EXCEPT ![coll] = <<>>]

\* {"$pull": {coll: {"_id": oid}}}
pull(doc, coll, oid) ==
    [doc EXCEPT ![coll] = SelectSeq(@, LAMBDA e : e["_id"] # oid)]

\* {"$set": data} on a trip document
set_fields(doc, data) ==
    [f \in DOMAIN doc \cup DOMAIN data |-> IF f \in DOMAIN data THEN data[f] ELSE doc[f]]

positional_first(doc, filter) == 1

\* the element the positional operator $ addresses: the first element of
\* the array that matches the filter
positional(doc, filter) == FirstIdx(doc[filter.coll], LAMBDA e : e["_id"] = filter.oid)

\* {"$set": {"<coll>.$": element}}
set_element(doc, filter, element) ==
    [doc EXCEPT ![filter.coll] = [@ EXCEPT ![positional(doc, filter)] = element]]

\* {"$set": {"<coll>.$.<field>": value}}
set_element_field(doc, filter, field, value) ==
    [doc EXCEPT ![filter.coll] =
        [@ EXCEPT ![positional(doc, filter)] =
            [f \in DOMAIN @ \cup {field} |-> IF f = field THEN value ELSE @[f]]]]

\* whether the document stored under tid matches the filter
matches(w, filter) ==
    /\ filter["_id"] \in DOMAIN w.trips
    /\ filter.coll # "" =>
           \E i \in 1..Len(w.trips[filter["_id"]][filter.coll]) :
               w.trips[filter["_id"]][filter.coll][i]["_id"] = filter.oid

apply_update(doc, filter, update) ==
    CASE update.op = "$set" -> set_fields(doc, update.data)
      [] update.op = "$push" -> push(doc, update.field, update.value)
      [] update.op = "$pull" -> pull(doc, update.field, update.oid)
      [] update.op = "$set.$" -> set_element(doc, filter, update.element)
      [] update.op = "$set.$.field" ->
            set_element_field(doc, filter, update.field, update.value)

update_one_upsert(w, filter, update) ==
    IF matches(w, filter)
    THEN [w EXCEPT !.trips[filter["_id"]] = apply_update(@, filter, update)]
    ELSE IF filter.coll # "" THEN w
    ELSE [w EXCEPT !.trips =
             [t \in DOMAIN @ \cup {filter["_id"]} |->
                 IF t \in DOMAIN @ THEN @[t]
                 ELSE apply_update([title |-> "", budget |-> 0, owner_id |-> "",
                                    collaborators |-> <<>>, activities |-> <<>>,
                                    expenses |-> <<>>, packing_items |-> <<>>,
                                    created_at |-> 0, updated_at |-> 0],
                                   filter, update)]]

update_one_push_unmatched(w, filter, update) ==
    IF matches(w, filter)
    THEN [w EXCEPT !.trips[filter["_id"]] = apply_update(@, filter, update)]
    ELSE IF filter["_id"] \in DOMAIN w.trips /\ update.op = "$set.$"
    THEN [w EXCEPT !.trips[filter["_id"]] = push(@, filter.coll, update.element)]
    ELSE w

\* db.trips.update_one(filter, update): the first matching document is
\* updated; without a match nothing is written (no upsert)
update_one(w, filter, update) ==
    IF matches(w, filter)
    THEN [w EXCEPT !.trips[filter["_id"]] = apply_update(@, filter, update)]
    ELSE w

\* db.trips.delete_one({"_id": tid})
delete_one(w, tid) ==
    [w EXCEPT !.trips = [t \in DOMAIN w.trips \ {tid} |-> w.trips[t]]]

\* db.trips.insert_one(doc): the store generates the _id
insert_one(w, doc) ==
    [w EXCEPT !.trips = [t \in DOMAIN w.trips \cup {w.oid} |->
                            IF t = w.oid THEN doc ELSE w.trips[t]],
              !.oid = w.oid + 1]

(***************************************************************************)
(* Request state.  q fields: op, user (the authenticated current_user.id), *)
(* trip_id and sub_id (path strings), body (a record), t (the value of the *)
(* clock the handler reads).  pc is the handler's position, snap the       *)
(* trip_obj it loaded, dict the dict it is about to write, uid the id of   *)
(* the user it looked up, idx its loop index, resp its response.           *)
(***************************************************************************)
NoBody == [none |-> TRUE]
NoResp == [code |-> 0, detail |-> "", body |-> None]

Rq(op, user, trip_id, sub_id, body, t) ==
    [op |-> op, user |-> user, trip_id |-> trip_id, sub_id |-> sub_id,
     body |-> body, t |-> t,
     pc |-> "start", snap |-> None, dict |-> None, uid |-> "", idx |-> 0,
     resp |-> NoResp]

\* raise HTTPException(status_code, detail)
HTTPException(w, rq, code, detail) ==
    [w |-> w,
     rq |-> [rq EXCEPT !.pc = "done",
                       !.resp = [code |-> code, detail |-> detail, body |-> None]]]

\* return body (status 200)
Return(w, rq, body) ==
    [w |-> w,
     rq |-> [rq EXCEPT !.pc = "done",
                       !.resp = [code |-> 200, detail |-> "", body |-> Some(body)]]]

\* an unhandled exception in the handler: 500
Unhandled(w, rq) == HTTPException(w, rq, 500, "Internal Server Error")

\* the handler awaits its next store round trip at pc
Await(w, rq, pc) == [w |-> w, rq |-> [rq EXCEPT !.pc = pc]]

Message(m) == [message |-> m]

(***************************************************************************)
(* Access control, as every handler spells it out.                         *)
(***************************************************************************)
\* trip_obj.owner_id != current_user.id and current_user.id not in collaborators
AccessDenied_owner_only(trip_obj, user) == trip_obj.owner_id # user

AccessDenied(trip_obj, user) ==
    trip_obj.owner_id # user /\ user \notin Range(trip_obj.collaborators)

NotOwner_nor_collaborator(trip_obj, user) ==
    trip_obj.owner_id # user /\ user \notin Range(trip_obj.collaborators)

\* trip_obj.owner_id != current_user.id
NotOwner(trip_obj, user) == trip_obj.owner_id # user

\* datetime.utcnow() as read by request rq: the clock never runs backwards
utcnow(w, rq) == IF rq.t > w.now THEN rq.t ELSE w.now

(***************************************************************************)
(* routers/trips_router.py                                                 *)
(***************************************************************************)
create_trip(w, rq) ==
    LET trip_dict == [title         |-> rq.body.title,
                      budget        |-> rq.body.budget,
                      owner_id      |-> rq.user,
                      collaborators |-> <<>>,
                      activities    |-> <<>>,
                      expenses      |-> <<>>,
                      packing_items |-> <<>>,
                      created_at    |-> utcnow(w, rq),
                      updated_at    |-> utcnow(w, rq)]
        w1 == insert_one([w EXCEPT !.now = utcnow(w, rq)], trip_dict)
    IN  Return(w1, rq, Trip(w.oid, trip_dict))

get_trip(w, rq) ==
    IF ~is_valid(rq.trip_id) THEN HTTPException(w, rq, 400, "Invalid trip ID")
    ELSE LET trip == find_one(w, ObjectId(rq.trip_id)) IN
    IF trip = None THEN HTTPException(w, rq, 404, "Trip not found")
    ELSE LET trip_obj == Trip(ObjectId(rq.trip_id), trip[1]) IN
    IF AccessDenied(trip_obj, rq.user)
    THEN HTTPException(w, rq, 403, "Access denied")
    ELSE Return(w, rq, trip_obj)

\* {k: v for k, v in trip_update.dict().items() if v is not None}
update_data_of(trip_update) ==
    [k \in {f \in DOMAIN trip_update : trip_update[f] # None} |-> trip_update[k][1]]

with_updated_at_stale(update_data, t) == update_data

\* update_data["updated_at"] = datetime.utcnow()
with_updated_at(update_data, t) ==
    [f \in DOMAIN update_data \cup {"updated_at"} |->
        IF f = "updated_at" THEN t ELSE update_data[f]]

update_trip(w, rq) ==
    CASE rq.pc = "start" ->
            IF ~is_valid(rq.trip_id) THEN HTTPException(w, rq, 400, "Invalid trip ID")
            ELSE LET trip == find_one(w, ObjectId(rq.trip_id)) IN
            IF trip = None THEN HTTPException(w, rq, 404, "Trip not found")
            ELSE LET trip_obj == Trip(ObjectId(rq.trip_id), trip[1])
                     update_data == update_data_of(rq.body) IN
            IF NotOwner(trip_obj, rq.user)
            THEN HTTPException(w, rq, 403, "Only trip owner can update trip details")
            ELSE IF DOMAIN update_data # {}
                 THEN Await([w EXCEPT !.now = utcnow(w, rq)],
                            [rq EXCEPT !.snap = Some(trip_obj),
                                       !.dict = Some(with_updated_at(update_data,
                                                                     utcnow(w, rq)))],
                            "update")
                 ELSE Await(w, [rq EXCEPT !.snap = Some(trip_obj)], "reread")
      [] rq.pc = "update" ->
            Await(update_one(w, ById(ObjectId(rq.trip_id)),
                             [op |-> "$set", data |-> rq.dict[1]]),
                  rq, "reread")
      [] rq.pc = "reread" ->
            LET updated_trip == find_one(w, ObjectId(rq.trip_id)) IN
            IF updated_trip = None THEN Unhandled(w, rq)
            ELSE Return(w, rq, Trip(ObjectId(rq.trip_id), updated_trip[1]))

delete_trip(w, rq) ==
    CASE rq.pc = "start" ->
            IF ~is_valid(rq.trip_id) THEN HTTPException(w, rq, 400, "Invalid trip ID")
            ELSE LET trip == find_one(w, ObjectId(rq.trip_id)) IN
            IF trip = None THEN HTTPException(w, rq, 404, "Trip not found")
            ELSE LET trip_obj == Trip(ObjectId(rq.trip_id), trip[1]) IN
            IF NotOwner(trip_obj, rq.user)
            THEN HTTPException(w, rq, 403, "Only trip owner can delete trip")
            ELSE Await(w, [rq EXCEPT !.snap = Some(trip_obj)], "delete")
      [] rq.pc = "delete" ->
            Return(delete_one(w, ObjectId(rq.trip_id)), rq,
                   Message("Trip deleted successfully"))

not_in_collaborators_always(user_id, trip_obj) == TRUE

\* user_obj.id not in trip_obj.collaborators
not_in_collaborators(user_id, trip_obj) == user_id \notin Range(trip_obj.collaborators)

\* POST /{trip_id}/collaborators/{user_email}
add_collaborator(w, rq) ==
    CASE rq.pc = "start" ->
            IF ~is_valid(rq.trip_id) THEN HTTPException(w, rq, 400, "Invalid trip ID")
            ELSE LET trip == find_one(w, ObjectId(rq.trip_id)) IN
            IF trip = None THEN HTTPException(w, rq, 404, "Trip not found")
            ELSE LET trip_obj == Trip(ObjectId(rq.trip_id), trip[1]) IN
            IF NotOwner(trip_obj, rq.user)
            THEN HTTPException(w, rq, 403, "Only trip owner can add collaborators")
            ELSE Await(w, [rq EXCEPT !.snap = Some(trip_obj)], "find_user")
      [] rq.pc = "find_user" ->
            LET user == find_user(w, rq.body.user_email) IN
            IF user = None THEN HTTPException(w, rq, 404, "User not found")
            ELSE IF not_in_collaborators(User(user[1]).id, rq.snap[1])
                 THEN Await(w, [rq EXCEPT !.uid = User(user[1]).id], "update")
                 ELSE Return(w, rq, Message("Collaborator added successfully"))
      [] rq.pc = "update" ->
            Return(update_one(w, ById(ObjectId(rq.trip_id)),
                              [op |-> "$push", field |-> "collaborators",
                               value |-> rq.uid]),
                   rq, Message("Collaborator added successfully"))

already_collaborator_never(user_id, trip_obj) == FALSE

\* current_user.id in trip_obj.collaborators
already_collaborator(user_id, trip_obj) == user_id \in Range(trip_obj.collaborators)

join_update_owner(user_id) == [op |-> "$set", data |-> [owner_id |-> user_id]]

\* {"$push": {"collaborators": current_user.id}}
join_update(user_id) == [op |-> "$push", field |-> "collaborators", value |-> user_id]

\* POST /join/{trip_id}
join_trip(w, rq) ==
    CASE rq.pc = "start" ->
            IF ~is_valid(rq.trip_id) THEN HTTPException(w, rq, 400, "Invalid trip ID")
            ELSE LET trip == find_one(w, ObjectId(rq.trip_id)) IN
            IF trip = None THEN HTTPException(w, rq, 404, "Trip not found")
            ELSE LET trip_obj == Trip(ObjectId(rq.trip_id), trip[1]) IN
            IF trip_obj.owner_id = rq.user
            THEN HTTPException(w, rq, 400, "You are already the owner of this trip")
            ELSE IF already_collaborator(rq.user, trip_obj)
            THEN HTTPException(w, rq, 400, "You are already a collaborator of this trip")
            ELSE Await(w, [rq EXCEPT !.snap = Some(trip_obj)], "update")
      [] rq.pc = "update" ->
            Await(update_one(w, ById(ObjectId(rq.trip_id)), join_update(rq.user)),
                  rq, "reread")
      [] rq.pc = "reread" ->
            LET updated_trip == find_one(w, ObjectId(rq.trip_id)) IN
            IF updated_trip = None THEN Unhandled(w, rq)
            ELSE Return(w, rq, Trip(ObjectId(rq.trip_id), updated_trip[1]))

\* the documents of db.activities / db.expenses with the given trip_id: these
\* collections are separate from db.trips and no handler writes to them
find_by_trip_id(w, collection, tid) == <<>>

\* settings.enable_pdf_export, settings.enable_calendar_export
enable_pdf_export == TRUE
enable_calendar_export == TRUE

\* the three export handlers; the rendering of the export is not modelled, the
\* response body is what the handler hands to export_service
export_trip(w, rq, enabled, disabled_detail, with_expenses) ==
    IF ~enabled THEN HTTPException(w, rq, 403, disabled_detail)
    ELSE IF ~is_valid(rq.trip_id) THEN HTTPException(w, rq, 400, "Invalid trip ID")
    ELSE LET trip == find_one(w, ObjectId(rq.trip_id)) IN
    IF trip = None THEN HTTPException(w, rq, 404, "Trip not found")
    ELSE LET trip_obj == Trip(ObjectId(rq.trip_id), trip[1]) IN
    IF AccessDenied(trip_obj, rq.user)
    THEN HTTPException(w, rq, 403, "Access denied")
    ELSE LET activities == Map(find_by_trip_id(w, "activities", ObjectId(rq.trip_id)),
                               SubModel)
             expenses == IF with_expenses
                         THEN Map(find_by_trip_id(w, "expenses", ObjectId(rq.trip_id)),
                                  SubModel)
                         ELSE <<>>
         IN  Return(w, rq, [trip |-> trip_obj, activities |-> activities,
                            expenses |-> expenses])

export_trip_pdf(w, rq) ==
    export_trip(w, rq, enable_pdf_export, "PDF export is disabled", TRUE)

export_trip_calendar(w, rq) ==
    export_trip(w, rq, enable_calendar_export, "Calendar export is disabled", FALSE)

export_trip_json(w, rq) == export_trip(w, rq, TRUE, "", TRUE)

(***************************************************************************)
(* The handlers of the three embedded collections.  activities_router.py,  *)
(* expenses_router.py and packing_router.py repeat the same code with the  *)
(* collection's name changed; the shared operators below are that code,    *)
(* with the collection as a parameter.                                     *)
(***************************************************************************)
\* the prefix of every sub-resource handler up to the access check:
\* None when the request passes, otherwise the error response
load_error_hides_trip(w, rq, with_sub_id) ==
    IF ~is_valid(rq.trip_id) \/ (with_sub_id /\ ~is_valid(rq.sub_id))
    THEN Some([code |-> 400,
               detail |-> IF with_sub_id THEN "Invalid ID" ELSE "Invalid trip ID"])
    ELSE LET trip == find_one(w, ObjectId(rq.trip_id)) IN
    IF trip = None THEN Some([code |-> 404, detail |-> "Trip not found"])
    ELSE IF AccessDenied(Trip(ObjectId(rq.trip_id), trip[1]), rq.user)
    THEN Some([code |-> 404, detail |-> "Trip not found"])
    ELSE None

load_error(w, rq, with_sub_id) ==
    IF ~is_valid(rq.trip_id) \/ (with_sub_id /\ ~is_valid(rq.sub_id))
    THEN Some([code |-> 400,
               detail |-> IF with_sub_id THEN "Invalid ID" ELSE "Invalid trip ID"])
    ELSE LET trip == find_one(w, ObjectId(rq.trip_id)) IN
    IF trip = None THEN Some([code |-> 404, detail |-> "Trip not found"])
    ELSE IF AccessDenied(Trip(ObjectId(rq.trip_id), trip[1]), rq.user)
    THEN Some([code |-> 403, detail |-> "Access denied"])
    ELSE None

loaded(w, rq) == Trip(ObjectId(rq.trip_id), find_one(w, ObjectId(rq.trip_id))[1])

create_sub_write_back(w, rq, coll) ==
    CASE rq.pc = "start" ->
            LET err == load_error(w, rq, FALSE) IN
            IF err # None THEN HTTPException(w, rq, err[1].code, err[1].detail)
            ELSE Await([w EXCEPT !.oid = w.oid + 1],
                       [rq EXCEPT !.snap = Some(loaded(w, rq)),
                                  !.dict = Some(WithId(rq.body, w.oid))],
                       "update")
      [] rq.pc = "update" ->
            Return(update_one(w, ById(ObjectId(rq.trip_id)),
                              [op |-> "$set",
                               data |-> [f \in {coll} |->
                                   Append([i \in 1..Len(rq.snap[1][coll]) |->
                                              WithId(rq.snap[1][coll][i],
                                                     ObjectId(rq.snap[1][coll][i].id))],
                                          rq.dict[1])]]),
                   rq, SubModel(rq.dict[1]))

\* POST /{trip_id}
create_sub(w, rq, coll) ==
    CASE rq.pc = "start" ->
            LET err == load_error(w, rq, FALSE) IN
            IF err # None THEN HTTPException(w, rq, err[1].code, err[1].detail)
            ELSE Await([w EXCEPT !.oid = w.oid + 1],
                       [rq EXCEPT !.snap = Some(loaded(w, rq)),
                                  !.dict = Some(WithId(rq.body, w.oid))],
                       "update")
      [] rq.pc = "update" ->
            Return(update_one(w, ById(ObjectId(rq.trip_id)),
                              [op |-> "$push", field |-> coll, value |-> rq.dict[1]]),
                   rq, SubModel(rq.dict[1]))

\* GET /{trip_id}
get_subs(w, rq, coll) ==
    LET err == load_error(w, rq, FALSE) IN
    IF err # None THEN HTTPException(w, rq, err[1].code, err[1].detail)
    ELSE Return(w, rq, loaded(w, rq)[coll])

\* PUT /{trip_id}/{sub_id}
update_sub(w, rq, coll) ==
    CASE rq.pc = "start" ->
            LET err == load_error(w, rq, TRUE) IN
            IF err # None THEN HTTPException(w, rq, err[1].code, err[1].detail)
            ELSE Await(w, [rq EXCEPT !.snap = Some(loaded(w, rq)),
                                     !.dict = Some(WithId(rq.body, ObjectId(rq.sub_id)))],
                       "update")
      [] rq.pc = "update" ->
            Return(update_one(w, ByElement(ObjectId(rq.trip_id), coll, ObjectId(rq.sub_id)),
                              [op |-> "$set.$", element |-> rq.dict[1]]),
                   rq, SubModel(rq.dict[1]))

\* DELETE /{trip_id}/{sub_id}
delete_sub(w, rq, coll, message) ==
    CASE rq.pc = "start" ->
            LET err == load_error(w, rq, TRUE) IN
            IF err # None THEN HTTPException(w, rq, err[1].code, err[1].detail)
            ELSE Await(w, [rq EXCEPT !.snap = Some(loaded(w, rq))], "update")
      [] rq.pc = "update" ->
            Return(update_one(w, ById(ObjectId(rq.trip_id)),
                              [op |-> "$pull", field |-> coll, oid |-> ObjectId(rq.sub_id)]),
                   rq, Message(message))

(***************************************************************************)
(* routers/activities_router.py                                            *)
(***************************************************************************)
create_activity(w, rq) == create_sub(w, rq, "activities")
get_trip_activities(w, rq) == get_subs(w, rq, "activities")
update_activity(w, rq) == update_sub(w, rq, "activities")
delete_activity(w, rq) == delete_sub(w, rq, "activities", "Activity deleted successfully")

\* the index of the next entry of activity_orders, from i on, whose
\* activity_id passes ObjectId.is_valid; 0 when there is none
next_valid_or_stop(activity_orders, i) ==
    IF i <= Len(activity_orders) /\ is_valid(activity_orders[i].activity_id) THEN i ELSE 0

next_valid(activity_orders, i) ==
    LET hits == {j \in i..Len(activity_orders) : is_valid(activity_orders[j].activity_id)}
    IN  IF hits = {} THEN 0 ELSE CHOOSE j \in hits : \A k \in hits : j <= k

\* PUT /{trip_id}/reorder: one update_one per entry with a valid activity_id
reorder_activities(w, rq) ==
    CASE rq.pc = "start" ->
            LET err == load_error(w, rq, FALSE)
                j == next_valid(rq.body.activity_orders, 1) IN
            IF err # None THEN HTTPException(w, rq, err[1].code, err[1].detail)
            ELSE IF j = 0
                 THEN Return(w, rq, Message("Activities reordered successfully"))
                 ELSE Await(w, [rq EXCEPT !.snap = Some(loaded(w, rq)), !.idx = j],
                            "update")
      [] rq.pc = "update" ->
            LET order_data == rq.body.activity_orders[rq.idx]
                activity_id == order_data.activity_id
                new_order == order_data.order
                w1 == update_one(w, ByElement(ObjectId(rq.trip_id), "activities",
                                              ObjectId(activity_id)),
                                 [op |-> "$set.$.field", field |-> "order",
                                  value |-> new_order])
                j == next_valid(rq.body.activity_orders, rq.idx + 1) IN
            IF j = 0
            THEN Return(w1, rq, Message("Activities reordered successfully"))
            ELSE Await(w1, [rq EXCEPT !.idx = j], "update")

(***************************************************************************)
(* routers/expenses_router.py                                              *)
(***************************************************************************)
create_expense(w, rq) == create_sub(w, rq, "expenses")
get_trip_expenses(w, rq) == get_subs(w, rq, "expenses")
update_expense(w, rq) == update_sub(w, rq, "expenses")
delete_expense(w, rq) == delete_sub(w, rq, "expenses", "Expense deleted successfully")

\* float arithmetic: amounts and budgets are floats, and every sum or
\* difference is rounded to the nearest float, ties to the even mantissa.
\* Floats are modelled as the integers that have at most Precision
\* significant bits.
RECURSIVE ulp(_, _)
\* the spacing of the floats around the magnitude n, from spacing q upwards
ulp(n, q) == IF n < (2 ^ Precision) * q THEN q ELSE ulp(n, 2 * q)

round_magnitude(n) ==
    LET q == ulp(n, 1)
        lower == (n \div q) * q
        rest == n - lower
    IN  IF 2 * rest < q THEN lower
        ELSE IF 2 * rest > q THEN lower + q
        ELSE IF (lower \div q) % 2 = 0 THEN lower ELSE lower + q

round(n) == IF n >= 0 THEN round_magnitude(n) ELSE 0 - round_magnitude(0 - n)

\* x + y and x - y on floats
fadd(x, y) == round(x + y)
fsub(x, y) == round(x - y)

RECURSIVE sum_from(_, _)
\* sum(...): the amounts are added to the running total from left to right
sum_from(total, expenses) ==
    IF expenses = <<>> THEN total
    ELSE sum_from(fadd(total, expenses[1].amount), Tail(expenses))

\* sum(expense.amount for expense in trip_obj.expenses)
SumAmounts(expenses) == sum_from(0, expenses)

RECURSIVE category_totals_of(_, _)
\* the loop building category_totals, from the dict built so far
category_totals_of(expenses, category_totals) ==
    IF expenses = <<>> THEN category_totals
    ELSE LET expense == expenses[1]
             category == expense.category
         IN  category_totals_of(Tail(expenses),
                 IF category \in DOMAIN category_totals
                 THEN [category_totals EXCEPT ![category] = fadd(@, expense.amount)]
                 ELSE [c \in DOMAIN category_totals \cup {category} |->
                          IF c = category THEN expense.amount ELSE category_totals[c]])

\* GET /{trip_id}/summary
get_expense_summary(w, rq) ==
    LET err == load_error(w, rq, FALSE) IN
    IF err # None THEN HTTPException(w, rq, err[1].code, err[1].detail)
    ELSE LET trip_obj == loaded(w, rq)
             total_spent == SumAmounts(trip_obj.expenses)
             budget == trip_obj.budget
             remaining == fsub(budget, total_spent)
         IN  Return(w, rq, [budget |-> budget,
                            total_spent |-> total_spent,
                            remaining |-> remaining,
                            category_breakdown |->
                                category_totals_of(trip_obj.expenses, <<>>)])

(***************************************************************************)
(* routers/packing_router.py                                               *)
(***************************************************************************)
create_packing_item(w, rq) == create_sub(w, rq, "packing_items")
get_trip_packing_items(w, rq) == get_subs(w, rq, "packing_items")
update_packing_item(w, rq) == update_sub(w, rq, "packing_items")
delete_packing_item(w, rq) ==
    delete_sub(w, rq, "packing_items", "Packing item deleted successfully")

\* PUT /{trip_id}/{item_id}/toggle
toggle_packing_item(w, rq) ==
    CASE rq.pc = "start" ->
            LET err == load_error(w, rq, TRUE) IN
            IF err # None THEN HTTPException(w, rq, err[1].code, err[1].detail)
            ELSE LET trip_obj == loaded(w, rq)
                     \* for item in trip_obj.packing_items: if str(item.id) == item_id
                     i == FirstIdx(trip_obj.packing_items, LAMBDA item : item.id = rq.sub_id)
                 IN  IF i = 0 THEN HTTPException(w, rq, 404, "Packing item not found")
                     ELSE Await(w, [rq EXCEPT
                                      !.snap = Some(trip_obj),
                                      !.dict = Some([packed |->
                                                  ~trip_obj.packing_items[i].packed])],
                                "update")
      [] rq.pc = "update" ->
            LET new_packed_status == rq.dict[1].packed IN
            Return(update_one(w, ByElement(ObjectId(rq.trip_id), "packing_items",
                                           ObjectId(rq.sub_id)),
                              [op |-> "$set.$.field", field |-> "packed",
                               value |-> new_packed_status]),
                   rq, [packed |-> new_packed_status])

packed_increment_always(item) == 1

\* if item.packed: categories[category]["packed_count"] += 1
packed_increment(item) == IF item.packed THEN 1 ELSE 0

RECURSIVE categories_of(_, _)
\* the loop grouping the packing items, from the dict built so far
categories_of(packing_items, categories) ==
    IF packing_items = <<>> THEN categories
    ELSE LET item == packing_items[1]
             category == item.category
             c0 == IF category \notin DOMAIN categories
                   THEN [c \in DOMAIN categories \cup {category} |->
                            IF c = category
                            THEN [items |-> <<>>, packed_count |-> 0, total_count |-> 0]
                            ELSE categories[c]]
                   ELSE categories
             c1 == [c0 EXCEPT ![category] =
                       [items |-> Append(@.items, item),
                        total_count |-> @.total_count + 1,
                        packed_count |-> @.packed_count + packed_increment(item)]]
         IN  categories_of(Tail(packing_items), c1)

\* GET /{trip_id}/categories
get_packing_categories(w, rq) ==
    LET err == load_error(w, rq, FALSE) IN
    IF err # None THEN HTTPException(w, rq, err[1].code, err[1].detail)
    ELSE Return(w, rq, categories_of(loaded(w, rq).packing_items, <<>>))

(***************************************************************************)
(* services/auth_service.py and routers/auth_router.py                     *)
(***************************************************************************)
\* create_access_token(data={"sub": email}) in the response of register and
\* login
Token(email) == [access_token |-> [sub |-> email], token_type |-> "bearer"]

\* AuthService.authenticate_user: the user, None, or an exception raised by
\* verify_password
authenticate_user(w, email, password) ==
    LET user == find_user(w, email) IN
    IF user = None THEN [raised |-> FALSE, user |-> None]
    ELSE LET verified == verify_password(password, user[1].hashed_password) IN
         IF verified = "UnknownHashError" THEN [raised |-> TRUE, user |-> None]
         ELSE IF verified = "False" THEN [raised |-> FALSE, user |-> None]
         ELSE [raised |-> FALSE, user |-> Some(User(user[1]))]

\* db.users.insert_one(user_dict): the document gets a new ObjectId
insert_user(w, user_dict) ==
    [w EXCEPT !.users =
        Append(@, [f \in DOMAIN user_dict \cup {"_id"} |->
                      IF f = "_id" THEN BsonObjectId(UserOidNames[Len(w.users) + 1])
                      ELSE user_dict[f]])]

\* POST /auth/register: AuthService.create_user and a token for the new user
register(w, rq) ==
    CASE rq.pc = "start" ->
            LET existing_user == find_user(w, rq.body.email) IN
            IF existing_user # None
            THEN HTTPException(w, rq, 400, "Email already registered")
            ELSE Await(w, [rq EXCEPT !.dict =
                              Some([email |-> rq.body.email,
                                    hashed_password |->
                                        get_password_hash(rq.body.password)])],
                       "insert")
      [] rq.pc = "insert" ->
            Return(insert_user(w, rq.dict[1]), rq, Token(rq.dict[1].email))

\* GET /auth/oauth/google/callback and /apple/callback, from the point where
\* the provider has named the user's email: AuthService.create_oauth_user
\* and a token for the user
google_callback(w, rq) ==
    CASE rq.pc = "start" ->
            LET existing_user == find_user(w, rq.body.email) IN
            IF existing_user # None
            THEN Return(w, rq, Token(User(existing_user[1]).email))
            ELSE Await(w, [rq EXCEPT !.dict =
                              Some([email |-> rq.body.email,
                                    hashed_password |-> EmptyHash])],
                       "insert")
      [] rq.pc = "insert" ->
            Return(insert_user(w, rq.dict[1]), rq, Token(rq.dict[1].email))

\* POST /auth/login
login(w, rq) ==
    LET found == authenticate_user(w, rq.body.email, rq.body.password) IN
    IF found.raised THEN Unhandled(w, rq)
    ELSE IF found.user = None
    THEN HTTPException(w, rq, 401, "Incorrect email or password")
    ELSE Return(w, rq, Token(found.user[1].email))

\* the User the bearer token of the request resolves to
get_current_user(w, rq) ==
    LET hits == {i \in 1..Len(w.users) : User(w.users[i]).id = rq.user}
    IN  User(w.users[CHOOSE i \in hits : TRUE])

\* db.users.update_one({"_id": user_id}, {"$set": {"hashed_password": ...}}):
\* user_id is current_user.id, a string; the result is the store and
\* modified_count
update_user_password(w, user_id, new_password) ==
    LET hits == {i \in 1..Len(w.users) : w.users[i]["_id"] = BsonString(user_id)}
    IN  IF hits = {} THEN [w |-> w, modified_count |-> 0]
        ELSE [w |-> [w EXCEPT !.users[CHOOSE i \in hits : \A j \in hits : i <= j]
                                  .hashed_password = get_password_hash(new_password)],
              modified_count |-> 1]

\* PUT /auth/change-password
change_password(w, rq) ==
    CASE rq.pc = "start" ->
            LET current_user == get_current_user(w, rq)
                found == authenticate_user(w, current_user.email,
                                           rq.body.current_password) IN
            IF found.raised
            THEN HTTPException(w, rq, 400, "Failed to change password")
            ELSE IF found.user = None
            THEN HTTPException(w, rq, 400, "Current password is incorrect")
            ELSE Await(w, [rq EXCEPT !.uid = current_user.id], "update")
      [] rq.pc = "update" ->
            LET result == update_user_password(w, rq.uid, rq.body.new_password) IN
            IF result.modified_count > 0
            THEN Return(result.w, rq, Message("Password updated successfully"))
            ELSE HTTPException(result.w, rq, 400, "Failed to update password")

\* generate_password_reset_token(): 32 random characters, a token no
\* request has been given before (w.oid counts what has been generated)
ResetTokens == <<"k1", "k2", "k3", "k4", "k5">>
generate_password_reset_token(w) == ResetTokens[w.oid]

\* timedelta(hours=24), in the unit of the clock
TokenLife == 1

\* POST /auth/password-reset/request: create_password_reset_request; the
\* email that send_password_reset_email sends is not modelled
password_reset_request(w, rq) ==
    CASE rq.pc = "start" ->
            IF find_user(w, rq.body.email) = None
            THEN HTTPException(w, rq, 404, "User not found")
            ELSE Await([w EXCEPT !.now = utcnow(w, rq), !.oid = w.oid + 1],
                       [rq EXCEPT !.dict =
                           Some([email |-> rq.body.email,
                                 token |-> generate_password_reset_token(w),
                                 expires_at |-> utcnow(w, rq) + TokenLife])],
                       "insert")
      [] rq.pc = "insert" ->
            Return([w EXCEPT !.password_resets = Append(@, rq.dict[1])], rq,
                   Message("Password reset email sent if the email is registered."))

\* db.password_resets.find_one({"token": token, "expires_at": {"$gt": t}})
find_reset_request(w, token, t) ==
    LET hits == {i \in 1..Len(w.password_resets) :
                    /\ w.password_resets[i].token = token
                    /\ w.password_resets[i].expires_at > t}
    IN  IF hits = {} THEN None
        ELSE Some(w.password_resets[CHOOSE i \in hits : \A j \in hits : i <= j])

\* db.users.update_one({"email": email}, {"$set": {"hashed_password": ...}})
set_password_by_email(w, email, hashed_password) ==
    LET hits == {i \in 1..Len(w.users) : w.users[i].email = email} IN
    IF hits = {} THEN w
    ELSE [w EXCEPT !.users[CHOOSE i \in hits : \A j \in hits : i <= j]
                       .hashed_password = hashed_password]

\* db.password_resets.delete_one({"token": token})
delete_reset_request(w, token) ==
    LET hits == {i \in 1..Len(w.password_resets) : w.password_resets[i].token = token}
    IN  IF hits = {} THEN w
        ELSE LET k == CHOOSE i \in hits : \A j \in hits : i <= j IN
             [w EXCEPT !.password_resets =
                 SubSeq(@, 1, k - 1) \o SubSeq(@, k + 1, Len(@))]

\* POST /auth/password-reset/confirm: AuthService.reset_password
password_reset_confirm(w, rq) ==
    CASE rq.pc = "start" ->
            LET reset_request == find_reset_request(w, rq.body.token, utcnow(w, rq)) IN
            IF reset_request = None
            THEN HTTPException(w, rq, 400, "Invalid or expired reset token")
            ELSE Await([w EXCEPT !.now = utcnow(w, rq)],
                       [rq EXCEPT !.snap = reset_request], "update")
      [] rq.pc = "update" ->
            Await(set_password_by_email(w, rq.snap[1].email,
                                        get_password_hash(rq.body.new_password)),
                  rq, "delete")
      [] rq.pc = "delete" ->
            Return(delete_reset_request(w, rq.body.token), rq,
                   Message("Password has been reset successfully."))

(***************************************************************************)
(* services/weather_service.py and routers/weather_router.py               *)
(*                                                                         *)
(* A date string is a day or does not parse.  What api.openweathermap.org  *)
(* does during the request (openweather) travels with the request: the     *)
(* outcome of the /weather call and of the /forecast call ("200", another  *)
(* status, or "raises" when the connection fails) and the forecast list.   *)
(***************************************************************************)
Date(day) == [iso |-> TRUE, day |-> day]
BadDate == [iso |-> FALSE, day |-> 0]

\* WeatherService._get_city_coordinates
get_city_coordinates(city, openweather) ==
    IF openweather.weather = "200" THEN Some([lat |-> city, lon |-> city]) ELSE None

\* WeatherService._process_forecast_data: the forecasts between the dates
\* and their summary; a date that does not parse raises ValueError
process_forecast_data(data, start_date, end_date) ==
    IF ~start_date.iso \/ ~end_date.iso THEN [raised |-> TRUE, result |-> None]
    ELSE LET trip_forecasts ==
                 SelectSeq(data, LAMBDA item : /\ start_date.day <= item.dt
                                               /\ item.dt <= end_date.day)
             temps == {trip_forecasts[i].temp : i \in 1..Len(trip_forecasts)}
         IN  [raised |-> FALSE,
              result |->
                Some(IF trip_forecasts # <<>>
                     THEN [summary |->
                             <<[min_temperature |->
                                   CHOOSE x \in temps : \A y \in temps : x <= y,
                                max_temperature |->
                                   CHOOSE x \in temps : \A y \in temps : y <= x,
                                forecast_days |-> Len(trip_forecasts)]>>,
                           daily_forecasts |-> trip_forecasts]
                     ELSE [summary |-> <<>>, daily_forecasts |-> <<>>])]

\* WeatherService.get_weather_forecast: the forecast or None; every
\* exception is logged and turned into None
service_get_weather_forecast(city, start_date, end_date, openweather) ==
    LET coords == get_city_coordinates(city, openweather) IN
    IF coords = None THEN None
    ELSE IF openweather.forecast = "raises" THEN None
    ELSE IF openweather.forecast # "200" THEN None
    ELSE LET processed == process_forecast_data(openweather.list, start_date, end_date)
         IN  IF processed.raised THEN None ELSE processed.result

\* GET /weather/{city}: the HTTPException(404) is raised inside the try
\* block, whose except Exception catches it and raises the 500
get_weather_forecast(w, rq) ==
    LET forecast == service_get_weather_forecast(rq.body.city, rq.body.start_date,
                                                 rq.body.end_date, rq.body.openweather)
    IN  IF forecast # None THEN Return(w, rq, forecast[1])
        ELSE HTTPException(w, rq, 500, "Failed to get weather forecast")

(***************************************************************************)
(* One step of a request, and a whole request.                             *)
(***************************************************************************)
\* the route table
Step(w, rq) ==
    CASE rq.op = "create_trip" -> create_trip(w, rq)
      [] rq.op = "get_trip" -> get_trip(w, rq)
      [] rq.op = "update_trip" -> update_trip(w, rq)
      [] rq.op = "delete_trip" -> delete_trip(w, rq)
      [] rq.op = "add_collaborator" -> add_collaborator(w, rq)
      [] rq.op = "join_trip" -> join_trip(w, rq)
      [] rq.op = "export_trip_pdf" -> export_trip_pdf(w, rq)
      [] rq.op = "export_trip_calendar" -> export_trip_calendar(w, rq)
      [] rq.op = "export_trip_json" -> export_trip_json(w, rq)
      [] rq.op = "create_activity" -> create_activity(w, rq)
      [] rq.op = "get_trip_activities" -> get_trip_activities(w, rq)
      [] rq.op = "update_activity" -> update_activity(w, rq)
      [] rq.op = "delete_activity" -> delete_activity(w, rq)
      [] rq.op = "reorder_activities" -> reorder_activities(w, rq)
      [] rq.op = "create_expense" -> create_expense(w, rq)
      [] rq.op = "get_trip_expenses" -> get_trip_expenses(w, rq)
      [] rq.op = "update_expense" -> update_expense(w, rq)
      [] rq.op = "delete_expense" -> delete_expense(w, rq)
      [] rq.op = "get_expense_summary" -> get_expense_summary(w, rq)
      [] rq.op = "create_packing_item" -> create_packing_item(w, rq)
      [] rq.op = "get_trip_packing_items" -> get_trip_packing_items(w, rq)
      [] rq.op = "update_packing_item" -> update_packing_item(w, rq)
      [] rq.op = "delete_packing_item" -> delete_packing_item(w, rq)
      [] rq.op = "toggle_packing_item" -> toggle_packing_item(w, rq)
      [] rq.op = "get_packing_categories" -> get_packing_categories(w, rq)
      [] rq.op = "register" -> register(w, rq)
      [] rq.op = "google_callback" -> google_callback(w, rq)
      [] rq.op = "login" -> login(w, rq)
      [] rq.op = "change_password" -> change_password(w, rq)
      [] rq.op = "get_weather_forecast" -> get_weather_forecast(w, rq)
      [] rq.op = "password_reset_request" -> password_reset_request(w, rq)
      [] rq.op = "password_reset_confirm" -> password_reset_confirm(w, rq)

RECURSIVE RunSteps(_)
\* a request handled with no other request in between: its steps to the end
RunSteps(st) == IF st.rq.pc = "done" THEN st ELSE RunSteps(Step(st.w, st.rq))

Handle(w, rq) == RunSteps([w |-> w, rq |-> rq])

(***************************************************************************)
(* Routing.  A router holds its routes in the order of their decorators    *)
(* and hands a request to the first route whose method and path pattern    *)
(* match; a path parameter matches any one segment.  A path is the         *)
(* sequence of its segments after the router's prefix: identifier strings  *)
(* and words.                                                              *)
(***************************************************************************)
\* a path segment that is a word, such as "reorder": not an ObjectId string
PathText(text) == [form |-> "malformed", hex |-> 0, text |-> text]

Param(name) == [param |-> name, text |-> ""]
Lit(text) == [param |-> "", text |-> text]
Route(method, path, endpoint) == [method |-> method, path |-> path, endpoint |-> endpoint]

activities_router ==
    << Route("POST", <<Param("trip_id")>>, "create_activity"),
       Route("GET", <<Param("trip_id")>>, "get_trip_activities"),
       Route("PUT", <<Param("trip_id"), Param("activity_id")>>, "update_activity"),
       Route("DELETE", <<Param("trip_id"), Param("activity_id")>>, "delete_activity"),
       Route("PUT", <<Param("trip_id"), Lit("reorder")>>, "reorder_activities") >>

expenses_router ==
    << Route("POST", <<Param("trip_id")>>, "create_expense"),
       Route("GET", <<Param("trip_id")>>, "get_trip_expenses"),
       Route("PUT", <<Param("trip_id"), Param("expense_id")>>, "update_expense"),
       Route("DELETE", <<Param("trip_id"), Param("expense_id")>>, "delete_expense"),
       Route("GET", <<Param("trip_id"), Lit("summary")>>, "get_expense_summary") >>

packing_router ==
    << Route("POST", <<Param("trip_id")>>, "create_packing_item"),
       Route("GET", <<Param("trip_id")>>, "get_trip_packing_items"),
       Route("PUT", <<Param("trip_id"), Param("item_id")>>, "update_packing_item"),
       Route("DELETE", <<Param("trip_id"), Param("item_id")>>, "delete_packing_item"),
       Route("PUT", <<Param("trip_id"), Param("item_id"), Lit("toggle")>>,
             "toggle_packing_item"),
       Route("GET", <<Param("trip_id"), Lit("categories")>>, "get_packing_categories") >>

segment_matches(pattern, segment) ==
    pattern.param # "" \/ segment = PathText(pattern.text)

route_matches(route, method, path) ==
    /\ route.method = method
    /\ Len(route.path) = Len(path)
    /\ \A i \in 1..Len(path) : segment_matches(route.path[i], path[i])

\* the endpoint of the first matching route, "" when no route matches
endpoint_of(routes, method, path) ==
    LET hits == {i \in 1..Len(routes) : route_matches(routes[i], method, path)}
    IN  IF hits = {} THEN ""
        ELSE routes[CHOOSE i \in hits : \A j \in hits : i <= j].endpoint

\* the fields without a default of the body parameter an endpoint declares
\* (Activity, Expense, PackingItem, List[dict])
required_fields(endpoint) ==
    CASE endpoint \in {"create_activity", "update_activity"} -> {"title"}
      [] endpoint \in {"create_expense", "update_expense"} -> {"amount", "category"}
      [] endpoint \in {"create_packing_item", "update_packing_item"} -> {"category"}
      [] endpoint = "reorder_activities" -> {"activity_orders"}
      [] OTHER -> {}

\* the request as its endpoint receives it: refused with 404 when no route
\* matches and with 422 when the body does not validate against the
\* endpoint's body parameter, before any code of the handler runs
Receive(routes, method, path, user, body, t) ==
    LET endpoint == endpoint_of(routes, method, path)
        rq == Rq(endpoint, user, path[1],
                 IF Len(path) >= 2 THEN path[2] ELSE Malformed, body, t)
    IN  IF endpoint = ""
        THEN [rq EXCEPT !.pc = "done",
                        !.resp = [code |-> 404, detail |-> "Not Found", body |-> None]]
        ELSE IF ~(required_fields(endpoint) \subseteq DOMAIN body)
        THEN [rq EXCEPT !.pc = "done",
                        !.resp = [code |-> 422, detail |-> "Unprocessable Entity",
                                  body |-> None]]
        ELSE rq

(***************************************************************************)
(* The requests clients send: small sets of path strings and bodies.       *)
(***************************************************************************)
TripIdStrs == {IdStr(n) : n \in Oids} \cup {Malformed}
SubIdStrs == {IdStr(n) : n \in Oids} \cup {UpperIdStr(n) : n \in Oids} \cup {Malformed}
TripCreateBodies == {[title |-> "A", budget |-> 5]}
TripUpdateBodies == [title : {None, Some("B")}, budget : {None, Some(7)}]
CreateOp(coll) ==
    CASE coll = "activities" -> "create_activity"
      [] coll = "expenses" -> "create_expense"
      [] coll = "packing_items" -> "create_packing_item"
UpdateOp(coll) ==
    CASE coll = "activities" -> "update_activity"
      [] coll = "expenses" -> "update_expense"
      [] coll = "packing_items" -> "update_packing_item"
DeleteOp(coll) ==
    CASE coll = "activities" -> "delete_activity"
      [] coll = "expenses" -> "delete_expense"
      [] coll = "packing_items" -> "delete_packing_item"

(***************************************************************************)
(* main.py: ConnectionManager and websocket_endpoint.                      *)
(*                                                                         *)
(* A WebSocket is new until connect accepts it, then open until its client *)
(* goes away (broken): send_text to a broken WebSocket raises, and         *)
(* receive_text on it raises WebSocketDisconnect.  The endpoint coroutine  *)
(* of a WebSocket gives way to the others at each await: in accept, in     *)
(* receive_text and in every send_text of a broadcast.  The for loop of    *)
(* broadcast_to_trip walks the list object by position; a list taken out   *)
(* of the dict by disconnect is empty and stays so (detached).             *)
(***************************************************************************)
Conns == {"c1", "c2", "c3"}
WsTrips == {"t1", "t2"}

\* the endpoint coroutine of a WebSocket: where it stands (pc), its trip_id,
\* the loop of its broadcast (the connection the send goes to, the position
\* in the list, whether the list has left the dict), the texts its client
\* has sent, and of its latest broadcast the list at the start and the
\* connections whose send returned
NoTask == [pc |-> "new", trip |-> "", target |-> "", i |-> 0, detached |-> FALSE,
           texts |-> 0, room |-> <<>>, sent |-> {}]

NoWebSockets ==
    /\ active_connections = [t \in {} |-> <<>>]
    /\ sockets = [c \in Conns |-> "new"]
    /\ tasks = [c \in Conns |-> NoTask]

\* list.remove(x): the first occurrence goes
list_remove(list, x) ==
    LET k == CHOOSE i \in 1..Len(list) :
                 list[i] = x /\ \A j \in 1..(i - 1) : list[j] # x
    IN  SubSeq(list, 1, k - 1) \o SubSeq(list, k + 1, Len(list))

\* ConnectionManager.connect, after websocket.accept()
connect(ac, websocket, trip_id) ==
    [t \in DOMAIN ac \cup {trip_id} |->
        IF t = trip_id
        THEN Append(IF t \in DOMAIN ac THEN ac[t] ELSE <<>>, websocket)
        ELSE ac[t]]

\* ConnectionManager.disconnect: the registry after it, whether remove
\* raised ValueError, and whether the trip's list left the dict
disconnect(ac, websocket, trip_id) ==
    IF trip_id \notin DOMAIN ac
    THEN [ac |-> ac, raised |-> FALSE, deleted |-> FALSE]
    ELSE IF websocket \notin Range(ac[trip_id])
    THEN [ac |-> ac, raised |-> TRUE, deleted |-> FALSE]
    ELSE LET list == list_remove(ac[trip_id], websocket) IN
         IF list = <<>>
         THEN [ac |-> [t \in DOMAIN ac \ {trip_id} |-> ac[t]],
               raised |-> FALSE, deleted |-> TRUE]
         ELSE [ac |-> [ac EXCEPT ![trip_id] = list],
               raised |-> FALSE, deleted |-> FALSE]

\* the except branch of broadcast_to_trip:
\* self.active_connections[trip_id].remove(connection), which raises KeyError
\* without the key and ValueError without the element
drop_broken(ac, connection, trip_id) ==
    IF trip_id \notin DOMAIN ac \/ connection \notin Range(ac[trip_id])
    THEN [ac |-> ac, raised |-> TRUE]
    ELSE [ac |-> [ac EXCEPT ![trip_id] = list_remove(@, connection)],
          raised |-> FALSE]

\* the for loop of broadcast_to_trip asks its list for the next element: the
\* task awaits the send to it, or the broadcast is over and the endpoint
\* awaits receive_text again
next_connection(ac, task) ==
    LET list == IF task.detached THEN <<>> ELSE ac[task.trip] IN
    IF task.i < Len(list)
    THEN [task EXCEPT !.pc = "send", !.target = list[task.i + 1], !.i = task.i + 1]
    ELSE [task EXCEPT !.pc = "receive", !.target = "", !.i = 0, !.detached = FALSE]

(***************************************************************************)
(* The state of the program and its actions.                               *)
(***************************************************************************)
World == [trips |-> trips, users |-> users, password_resets |-> password_resets,
          oid |-> nextOid, now |-> now]

Init ==
    /\ trips = <<>>
    /\ users = InitUsers
    /\ password_resets = <<>>
    /\ nextOid = 1
    /\ now = 0
    /\ NoWebSockets
    /\ reqs = <<>>

\* request rq is handled from start to end, no other request in between
Serve(rq) ==
    LET st == Handle(World, rq) IN
    /\ st.w.oid <= MaxOid + 1
    /\ trips' = st.w.trips
    /\ users' = st.w.users
    /\ password_resets' = st.w.password_resets
    /\ nextOid' = st.w.oid
    /\ now' = st.w.now
    /\ UNCHANGED wsvars
    /\ UNCHANGED reqs

(***************************************************************************)
(* Spec: the requests of trips_router.py, any user addressing any trip id. *)
(***************************************************************************)
TripRouterReadOps == {"get_trip", "export_trip_pdf", "export_trip_calendar",
                      "export_trip_json"}

CreateTrip ==
    \E u \in UserIds, b \in TripCreateBodies :
        /\ Cardinality(DOMAIN trips) < MaxTrips
        /\ Serve(Rq("create_trip", u, Malformed, Malformed, b, now))

TripRead ==
    \E op \in TripRouterReadOps, u \in UserIds, tid \in TripIdStrs :
        Serve(Rq(op, u, tid, Malformed, NoBody, now))

\* the request reads the clock at t, the time of the last write or later
UpdateTrip ==
    \E u \in UserIds, tid \in TripIdStrs, b \in TripUpdateBodies, t \in now..MaxNow :
        Serve(Rq("update_trip", u, tid, Malformed, b, t))

DeleteTrip ==
    \E u \in UserIds, tid \in TripIdStrs :
        Serve(Rq("delete_trip", u, tid, Malformed, NoBody, now))

AddCollaborator ==
    \E u \in UserIds, tid \in TripIdStrs, e \in Emails :
        Serve(Rq("add_collaborator", u, tid, Malformed, [user_email |-> e], now))

JoinTrip ==
    \E u \in UserIds, tid \in TripIdStrs :
        Serve(Rq("join_trip", u, tid, Malformed, NoBody, now))

Next ==
    \/ CreateTrip
    \/ TripRead
    \/ UpdateTrip
    \/ DeleteTrip
    \/ AddCollaborator
    \/ JoinTrip

Spec == Init /\ [][Next]_vars

(***************************************************************************)
(* SpecSubs: the requests of activities_router.py, expenses_router.py and  *)
(* packing_router.py on trips that users create and join.  The requests    *)
(* that drive the store address a stored trip or are malformed, and carry  *)
(* a few of the bodies above.                                              *)
(***************************************************************************)
SentTripIds == {IdStr(n) : n \in DOMAIN trips} \cup {Malformed}
SentSubIds == {IdStr(n) : n \in 1..(nextOid - 1)} \cup {Malformed}
SentBodies(coll) ==
    CASE coll = "activities" -> [id : {IdStr(1)}, title : {"a1", "a2"}, order : {0}]
      [] coll = "expenses" -> [id : {IdStr(1)}, amount : {1, 2}, category : {"food"}]
      [] coll = "packing_items" ->
            [id : {IdStr(1)}, category : {"clothes"}, packed : BOOLEAN]
SentOrderEntries == [activity_id : SentSubIds, order : {1}]
SentReorders == {[activity_orders |-> l] :
                    l \in {<<a>> : a \in SentOrderEntries}
                          \cup {<<a, b>> : a, b \in SentOrderEntries}}
SubReadOps == {"get_trip_activities", "get_trip_expenses", "get_expense_summary",
               "get_trip_packing_items", "get_packing_categories"}

JoinSentTrip ==
    \E u \in UserIds, tid \in SentTripIds :
        Serve(Rq("join_trip", u, tid, Malformed, NoBody, now))

SubRead ==
    \E op \in SubReadOps, u \in UserIds, tid \in SentTripIds :
        Serve(Rq(op, u, tid, Malformed, NoBody, now))

CreateSub ==
    \E coll \in Collections, u \in UserIds, tid \in SentTripIds :
        \E b \in SentBodies(coll) :
            Serve(Rq(CreateOp(coll), u, tid, Malformed, b, now))

UpdateSub ==
    \E coll \in Collections, u \in UserIds, tid \in SentTripIds, sid \in SentSubIds :
        \E b \in SentBodies(coll) :
            Serve(Rq(UpdateOp(coll), u, tid, sid, b, now))

DeleteSub ==
    \E coll \in Collections, u \in UserIds, tid \in SentTripIds, sid \in SentSubIds :
        Serve(Rq(DeleteOp(coll), u, tid, sid, NoBody, now))

ReorderActivities ==
    \E u \in UserIds, tid \in SentTripIds, b \in SentReorders :
        Serve(Receive(activities_router, "PUT", <<tid, PathText("reorder")>>, u, b, now))

TogglePackingItem ==
    \E u \in UserIds, tid \in SentTripIds, sid \in SentSubIds :
        Serve(Rq("toggle_packing_item", u, tid, sid, NoBody, now))

NextSubs ==
    \/ CreateTrip
    \/ JoinSentTrip
    \/ SubRead
    \/ CreateSub
    \/ UpdateSub
    \/ DeleteSub
    \/ ReorderActivities
    \/ TogglePackingItem

SpecSubs == Init /\ [][NextSubs]_vars

(***************************************************************************)
(* SpecConc: requests in flight at the same time.  Every handler is a      *)
(* coroutine of one event loop: it runs without interruption up to its     *)
(* next await of a store round trip, where any other handler may run.      *)
(* reqs[r] is the request of slot r with its handler's position; one step  *)
(* of the specification is one handler running from one await to the next. *)
(* The store starts with a trip of u1 that u2 has joined, holding two      *)
(* activities, an expense and a packing item.                              *)
(***************************************************************************)
Slots == 1..MaxInflight

EmptyWorld == [trips |-> <<>>, users |-> InitUsers, password_resets |-> <<>>,
               oid |-> 1, now |-> 0]

SetupRequests ==
    << Rq("create_trip", "u1", Malformed, Malformed, [title |-> "A", budget |-> 5], 0),
       Rq("join_trip", "u2", IdStr(1), Malformed, NoBody, 0),
       Rq("create_activity", "u1", IdStr(1), Malformed,
          [id |-> IdStr(1), title |-> "a1", order |-> 0], 0),
       Rq("create_activity", "u2", IdStr(1), Malformed,
          [id |-> IdStr(1), title |-> "a2", order |-> 0], 0),
       Rq("create_expense", "u1", IdStr(1), Malformed,
          [id |-> IdStr(1), amount |-> 1, category |-> "food"], 0),
       Rq("create_packing_item", "u2", IdStr(1), Malformed,
          [id |-> IdStr(1), category |-> "clothes", packed |-> FALSE], 0) >>

\* the store after the requests rqs[1..n], served one after the other
RECURSIVE ServeAll(_, _, _)
ServeAll(w, rqs, n) ==
    IF n = 0 THEN w ELSE Handle(ServeAll(w, rqs, n - 1), rqs[n]).w

BaseWorld == ServeAll(EmptyWorld, SetupRequests, Len(SetupRequests))

\* the requests that race: on trip 1 (activities 2 and 3, expense 4, packing
\* item 5), by its owner u1, its collaborator u2 and the outsider u3
RaceRequests ==
    { Rq("create_activity", "u2", IdStr(1), Malformed,
         [id |-> IdStr(1), title |-> "a3", order |-> 0], 0),
      Rq("create_expense", "u1", IdStr(1), Malformed,
         [id |-> IdStr(1), amount |-> 2, category |-> "food"], 0),
      Rq("update_activity", "u1", IdStr(1), IdStr(2),
         [id |-> IdStr(1), title |-> "b1", order |-> 0], 0),
      Rq("update_activity", "u2", IdStr(1), IdStr(3),
         [id |-> IdStr(1), title |-> "b2", order |-> 0], 0),
      Rq("delete_activity", "u2", IdStr(1), IdStr(2), NoBody, 0),
      Receive(activities_router, "PUT", <<IdStr(1), PathText("reorder")>>, "u1",
              [activity_orders |-> << [activity_id |-> IdStr(2), order |-> 1],
                                      [activity_id |-> IdStr(3), order |-> 2] >>], 0),
      Rq("update_expense", "u2", IdStr(1), IdStr(4),
         [id |-> IdStr(1), amount |-> 2, category |-> "transport"], 0),
      Rq("delete_expense", "u1", IdStr(1), IdStr(4), NoBody, 0),
      Rq("update_packing_item", "u1", IdStr(1), IdStr(5),
         [id |-> IdStr(1), category |-> "documents", packed |-> FALSE], 0),
      Rq("toggle_packing_item", "u2", IdStr(1), IdStr(5), NoBody, 0),
      Rq("delete_packing_item", "u2", IdStr(1), IdStr(5), NoBody, 0),
      Rq("update_trip", "u1", IdStr(1), Malformed,
         [title |-> Some("B"), budget |-> None], 0),
      Rq("delete_trip", "u1", IdStr(1), Malformed, NoBody, 0),
      Rq("add_collaborator", "u1", IdStr(1), Malformed, [user_email |-> "e3"], 0),
      Rq("join_trip", "u3", IdStr(1), Malformed, NoBody, 0),
      Rq("create_trip", "u3", Malformed, Malformed, [title |-> "A", budget |-> 5], 0) }

InitConc ==
    /\ trips = BaseWorld.trips
    /\ users = BaseWorld.users
    /\ password_resets = BaseWorld.password_resets
    /\ nextOid = BaseWorld.oid
    /\ now = BaseWorld.now
    /\ NoWebSockets
    /\ reqs \in [Slots -> RaceRequests]

\* the handler of slot r runs up to its next await, or to its response
Resume(r) ==
    /\ reqs[r].pc # "done"
    /\ LET st == Step(World, reqs[r]) IN
       /\ trips' = st.w.trips
       /\ users' = st.w.users
       /\ password_resets' = st.w.password_resets
       /\ nextOid' = st.w.oid
       /\ now' = st.w.now
       /\ UNCHANGED wsvars
       /\ reqs' = [reqs EXCEPT ![r] = st.rq]

NextConc == \E r \in Slots : Resume(r)

SpecConc == InitConc /\ [][NextConc]_vars

(***************************************************************************)
(* SpecSummary: get_expense_summary applied to the trips that create_trip  *)
(* and up to MaxExpenses create_expense requests store.  Amounts are 1 and *)
(* the first float whose neighbours are more than 1 apart.                 *)
(***************************************************************************)
SummaryAmounts == {1, 2 ^ Precision}
SummaryBudgets == {5, 2 ^ (Precision + 1)}
SummaryCategories == {"food", "transport"}
SummaryExpenses == [amount : SummaryAmounts, category : SummaryCategories]
ExpenseLists == UNION {[1..n -> SummaryExpenses] : n \in 0..MaxExpenses}

SummarySetup(budget, list) ==
    << Rq("create_trip", "u1", Malformed, Malformed, [title |-> "A", budget |-> budget], 0) >>
    \o [i \in 1..Len(list) |->
           Rq("create_expense", "u1", IdStr(1), Malformed,
              [id |-> IdStr(1), amount |-> list[i].amount,
               category |-> list[i].category], 0)]

InitSummary ==
    \E budget \in SummaryBudgets, list \in ExpenseLists :
        LET w == ServeAll(EmptyWorld, SummarySetup(budget, list), Len(list) + 1) IN
        /\ trips = w.trips
        /\ users = w.users
        /\ password_resets = w.password_resets
        /\ nextOid = w.oid
        /\ now = w.now
        /\ NoWebSockets
        /\ reqs = <<>>

\* a user requests the summary; reqs keeps the answered request
GetExpenseSummary ==
    \E u \in UserIds :
        LET st == Handle(World, Rq("get_expense_summary", u, IdStr(1), Malformed,
                                   NoBody, now)) IN
        /\ trips' = st.w.trips
        /\ users' = st.w.users
        /\ password_resets' = st.w.password_resets
        /\ nextOid' = st.w.oid
        /\ now' = st.w.now
        /\ UNCHANGED wsvars
        /\ reqs' = <<st.rq>>

NextSummary == GetExpenseSummary

SpecSummary == InitSummary /\ [][NextSummary]_vars

(***************************************************************************)
(* SpecPacking: get_packing_categories applied to the trips that           *)
(* create_trip and up to MaxItems create_packing_item requests store.      *)
(***************************************************************************)
PackingCategories == {"clothes", "documents"}
PackingItems == [category : PackingCategories, packed : BOOLEAN]
PackingLists == UNION {[1..n -> PackingItems] : n \in 0..MaxItems}

PackingSetup(list) ==
    << Rq("create_trip", "u1", Malformed, Malformed, [title |-> "A", budget |-> 5], 0) >>
    \o [i \in 1..Len(list) |->
           Rq("create_packing_item", "u1", IdStr(1), Malformed,
              [id |-> IdStr(1), category |-> list[i].category,
               packed |-> list[i].packed], 0)]

InitPacking ==
    \E list \in PackingLists :
        LET w == ServeAll(EmptyWorld, PackingSetup(list), Len(list) + 1) IN
        /\ trips = w.trips
        /\ users = w.users
        /\ password_resets = w.password_resets
        /\ nextOid = w.oid
        /\ now = w.now
        /\ NoWebSockets
        /\ reqs = <<>>

\* a user requests the categories; reqs keeps the answered request
GetPackingCategories ==
    \E u \in UserIds :
        LET st == Handle(World, Rq("get_packing_categories", u, IdStr(1), Malformed,
                                   NoBody, now)) IN
        /\ trips' = st.w.trips
        /\ users' = st.w.users
        /\ password_resets' = st.w.password_resets
        /\ nextOid' = st.w.oid
        /\ now' = st.w.now
        /\ UNCHANGED wsvars
        /\ reqs' = <<st.rq>>

NextPacking == GetPackingCategories

SpecPacking == InitPacking /\ [][NextPacking]_vars

(***************************************************************************)
(* SpecAuth: register, OAuth login, login and change-password requests in  *)
(* flight at the same time, on the users collection of Init.               *)
(***************************************************************************)
Passwords == {"p1", "p9"}

AuthRequests ==
    {Rq("register", "", Malformed, Malformed, [email |-> e, password |-> "p9"], 0) :
        e \in {"e1", "e0"}}
    \cup {Rq("google_callback", "", Malformed, Malformed, [email |-> e], 0) :
             e \in {"e3", "e0"}}
    \cup {Rq("login", "", Malformed, Malformed, [email |-> e, password |-> p], 0) :
             e \in {"e1", "e3", "e0"}, p \in Passwords}
    \cup {Rq("change_password", "u1", Malformed, Malformed,
             [current_password |-> p, new_password |-> "p9"], 0) : p \in {"p1", "p2"}}

InitAuth ==
    /\ trips = <<>>
    /\ users = InitUsers
    /\ password_resets = <<>>
    /\ nextOid = 1
    /\ now = 0
    /\ NoWebSockets
    /\ reqs \in [Slots -> AuthRequests]

SpecAuth == InitAuth /\ [][NextConc]_vars

(***************************************************************************)
(* SpecReset: password-reset requests and confirmations in flight at the   *)
(* same time.  The user of e1 has asked for a reset at time 0 and holds    *)
(* token k1; the requests read the clock at 0 or when k1 has expired.      *)
(***************************************************************************)
ResetRequest(e, t) ==
    Rq("password_reset_request", "", Malformed, Malformed, [email |-> e], t)
ResetConfirm(token, new_password, t) ==
    Rq("password_reset_confirm", "", Malformed, Malformed,
       [token |-> token, new_password |-> new_password], t)

ResetWorld == Handle(EmptyWorld, ResetRequest("e1", 0)).w

ResetRaceRequests ==
    {ResetConfirm(k, p, t) : k \in {"k1", "k2"}, p \in {"p8", "p9"}, t \in {0, TokenLife}}
    \cup {ResetRequest(e, 0) : e \in {"e1", "e0"}}

InitReset ==
    /\ trips = ResetWorld.trips
    /\ users = ResetWorld.users
    /\ password_resets = ResetWorld.password_resets
    /\ nextOid = ResetWorld.oid
    /\ now = ResetWorld.now
    /\ reqs \in [Slots -> ResetRaceRequests]
    /\ NoWebSockets

SpecReset == InitReset /\ [][NextConc]_vars

(***************************************************************************)
(* SpecWeather: GET /weather/{city} for a few cities and date ranges, the  *)
(* weather API answering, refusing or failing.                             *)
(***************************************************************************)
Cities == {"paris", "atlantis"}
Dates == {Date(1), Date(2), BadDate}
Outcomes == {"200", "401", "raises"}
ForecastLists == {<<>>, <<[dt |-> 1, temp |-> 20]>>,
                  <<[dt |-> 1, temp |-> 20], [dt |-> 2, temp |-> 10]>>}
OpenWeather == [weather : Outcomes, forecast : Outcomes, list : ForecastLists]

WeatherRq(u, city, start_date, end_date, openweather) ==
    Rq("get_weather_forecast", u, Malformed, Malformed,
       [city |-> city, start_date |-> start_date, end_date |-> end_date,
        openweather |-> openweather], now)

InitWeather ==
    /\ trips = <<>>
    /\ users = InitUsers
    /\ password_resets = <<>>
    /\ nextOid = 1
    /\ now = 0
    /\ reqs = <<>>
    /\ NoWebSockets

\* a user asks for a forecast; reqs keeps the answered request
GetWeatherForecast ==
    \E u \in UserIds, city \in Cities, start_date \in Dates, end_date \in Dates,
       openweather \in OpenWeather :
        LET st == Handle(World, WeatherRq(u, city, start_date, end_date, openweather)) IN
        /\ reqs' = <<st.rq>>
        /\ UNCHANGED <<trips, users, password_resets, nextOid, now>>
        /\ UNCHANGED wsvars

NextWeather == GetWeatherForecast

SpecWeather == InitWeather /\ [][NextWeather]_vars

(***************************************************************************)
(* SpecWs: websocket clients connect to /ws/{trip_id}, send text, and go   *)
(* away; the endpoint coroutines interleave at their awaits.               *)
(***************************************************************************)
InitWs ==
    /\ trips = <<>>
    /\ users = InitUsers
    /\ password_resets = <<>>
    /\ nextOid = 1
    /\ now = 0
    /\ reqs = <<>>
    /\ NoWebSockets

\* the trip ids the client of c may put in the path
ClientTrips(c) == IF c = "c3" THEN WsTrips ELSE {"t1"}

\* a client opens /ws/{trip_id}: manager.connect, then the endpoint awaits
\* receive_text
Connect(c) ==
    \E trip_id \in ClientTrips(c) :
        /\ sockets[c] = "new"
        /\ sockets' = [sockets EXCEPT ![c] = "open"]
        /\ active_connections' = connect(active_connections, c, trip_id)
        /\ tasks' = [tasks EXCEPT ![c] = [NoTask EXCEPT !.pc = "receive",
                                                        !.trip = trip_id]]

\* the client of c goes away
Break(c) ==
    /\ sockets[c] = "open"
    /\ sockets' = [sockets EXCEPT ![c] = "broken"]
    /\ UNCHANGED <<active_connections, tasks>>

\* receive_text of c returns a text: broadcast_to_trip starts
ReceiveText(c) ==
    /\ tasks[c].pc = "receive"
    /\ sockets[c] = "open"
    /\ tasks[c].texts < MaxTexts
    /\ LET trip_id == tasks[c].trip
           room == IF trip_id \in DOMAIN active_connections
                   THEN active_connections[trip_id] ELSE <<>>
           started == [tasks[c] EXCEPT !.room = room, !.sent = {}, !.i = 0,
                                       !.texts = @ + 1,
                                       !.detached = trip_id \notin DOMAIN active_connections]
       IN  tasks' = [tasks EXCEPT ![c] = next_connection(active_connections, started)]
    /\ UNCHANGED <<active_connections, sockets>>

\* the send_text that the broadcast of c awaits returns or raises; the loop
\* goes on to its next await
SendText(c) ==
    /\ tasks[c].pc = "send"
    /\ LET task == tasks[c]
           connection == task.target
       IN  IF sockets[connection] = "open"
           THEN /\ tasks' = [tasks EXCEPT ![c] =
                                next_connection(active_connections,
                                                [task EXCEPT !.sent = @ \cup {connection}])]
                /\ UNCHANGED <<active_connections, sockets>>
           ELSE LET dropped == drop_broken(active_connections, connection, task.trip) IN
                IF dropped.raised
                THEN /\ tasks' = [tasks EXCEPT ![c].pc = "broadcast_raised"]
                     /\ sockets' = [sockets EXCEPT ![c] = "broken"]
                     /\ UNCHANGED active_connections
                ELSE /\ active_connections' = dropped.ac
                     /\ tasks' = [tasks EXCEPT ![c] = next_connection(dropped.ac, task)]
                     /\ UNCHANGED sockets

\* receive_text of c raises WebSocketDisconnect: manager.disconnect
ReceiveDisconnect(c) ==
    /\ tasks[c].pc = "receive"
    /\ sockets[c] = "broken"
    /\ LET left == disconnect(active_connections, c, tasks[c].trip) IN
       /\ active_connections' = left.ac
       /\ tasks' = [x \in Conns |->
                       IF x = c
                       THEN [tasks[c] EXCEPT !.pc = IF left.raised
                                                    THEN "disconnect_raised"
                                                    ELSE "done"]
                       ELSE IF left.deleted /\ tasks[x].pc = "send"
                               /\ tasks[x].trip = tasks[c].trip
                       THEN [tasks[x] EXCEPT !.detached = TRUE]
                       ELSE tasks[x]]
    /\ UNCHANGED sockets

NextWs ==
    \E c \in Conns :
        \/ Connect(c) /\ UNCHANGED dbvars
        \/ Break(c) /\ UNCHANGED dbvars
        \/ ReceiveText(c) /\ UNCHANGED dbvars
        \/ SendText(c) /\ UNCHANGED dbvars
        \/ ReceiveDisconnect(c) /\ UNCHANGED dbvars

SpecWs == InitWs /\ [][NextWs]_vars

(***************************************************************************)
(* Properties.  Out(rq) is the outcome of request rq served in the current *)
(* state: the store afterwards (.w) and the response (.rq.resp).           *)
(***************************************************************************)
Out(rq) == Handle(World, rq)

\* canAccess and canManage of the specification
canAccess(doc, u) == u = doc.owner_id \/ u \in Range(doc.collaborators)
canManage(doc, u) == u = doc.owner_id

Resp(rq) == Out(rq).rq.resp
IsError(resp, code, detail) == resp.code = code /\ resp.detail = detail
IdsOf(list) == {list[i]["_id"] : i \in 1..Len(list)}
Count(list, x) == Cardinality({i \in 1..Len(list) : list[i] = x})

WellFormedSubIds == SubIdStrs \ {Malformed}

\* the requests of user u on trip id tid that read or change the trip's
\* embedded collections, with well-formed identifiers
CollectionRequests(u, tid) ==
    {Rq(op, u, tid, Malformed, NoBody, now) : op \in {"get_trip"} \cup SubReadOps}
    \cup UNION {{Rq(CreateOp(coll), u, tid, Malformed, b, now) : b \in SentBodies(coll)}
                 : coll \in Collections}
    \cup UNION {{Rq(UpdateOp(coll), u, tid, sid, b, now) :
                    sid \in WellFormedSubIds, b \in SentBodies(coll)}
                 : coll \in Collections}
    \cup UNION {{Rq(DeleteOp(coll), u, tid, sid, NoBody, now) : sid \in WellFormedSubIds}
                 : coll \in Collections}
    \cup {Rq("toggle_packing_item", u, tid, sid, NoBody, now) : sid \in WellFormedSubIds}
    \cup {Rq("reorder_activities", u, tid, Malformed, b, now) : b \in SentReorders}

\* the owner-only requests of user u on trip id tid
ManageRequests(u, tid) ==
    {Rq("update_trip", u, tid, Malformed, b, now) : b \in TripUpdateBodies}
    \cup {Rq("delete_trip", u, tid, Malformed, NoBody, now)}
    \cup {Rq("add_collaborator", u, tid, Malformed, [user_email |-> e], now) : e \in Emails}

\* C1: for every stored trip T, user U and request of U on T's embedded
\* collections (well-formed identifiers), the request is rejected with 403
\* "Access denied" iff U is neither T's owner nor one of T's collaborators,
\* and a rejected request leaves the store unchanged.
C1_AccessCheck ==
    \A t \in DOMAIN trips, u \in UserIds :
        \A rq \in CollectionRequests(u, IdStr(t)) :
            LET st == Out(rq) IN
            /\ IsError(st.rq.resp, 403, "Access denied") <=> ~canAccess(trips[t], u)
            /\ ~canAccess(trips[t], u) => st.w = World

\* a trip with a collaborator and an activity: the outsider's delete of the
\* activity is denied, the collaborator's and the owner's pass and remove it
C1_Witness ==
    \E t \in DOMAIN trips, c, o \in UserIds :
        /\ c \in Range(trips[t].collaborators)
        /\ ~canAccess(trips[t], o)
        /\ trips[t].activities # <<>>
        /\ LET sid == str(trips[t].activities[1]["_id"])
               del(u) == Out(Rq("delete_activity", u, IdStr(t), sid, NoBody, now))
           IN  /\ del(o).rq.resp.code = 403 /\ del(o).w = World
               /\ del(c).rq.resp.code = 200 /\ del(c).w # World
               /\ del(trips[t].owner_id).rq.resp.code = 200

\* C2: update_trip, delete_trip and add_collaborator succeed only for the
\* trip's owner; from any other user, collaborators included, they are
\* rejected with 403 and leave the store unchanged.
C2_OwnerOnly ==
    \A t \in DOMAIN trips, u \in UserIds :
        \A rq \in ManageRequests(u, IdStr(t)) :
            LET st == Out(rq) IN
            /\ st.rq.resp.code = 200 => canManage(trips[t], u)
            /\ ~canManage(trips[t], u) => st.rq.resp.code = 403 /\ st.w = World

\* a collaborator of a trip is refused all three
C2_Witness ==
    \E t \in DOMAIN trips, c \in UserIds :
        /\ c \in Range(trips[t].collaborators)
        /\ c # trips[t].owner_id
        /\ \A rq \in ManageRequests(c, IdStr(t)) : Resp(rq).code = 403
        /\ Resp(Rq("delete_trip", trips[t].owner_id, IdStr(t), Malformed, NoBody, now)).code
               = 200

\* C3: a trip's owner_id is never an element of its collaborators.
C3_OwnerNotCollaborator ==
    \A t \in DOMAIN trips : trips[t].owner_id \notin Range(trips[t].collaborators)
\* every request of user u on trip id tid, of every router
AllRequests(u, tid) ==
    CollectionRequests(u, tid) \cup ManageRequests(u, tid)
    \cup {Rq(op, u, tid, Malformed, NoBody, now) :
             op \in {"join_trip"} \cup TripRouterReadOps}

\* C4: create_trip stores the creating user as owner_id, and no request of
\* any router changes the owner_id of a stored trip.
C4_OwnerFixed ==
    \A u \in UserIds :
        /\ \A b \in TripCreateBodies :
               LET st == Out(Rq("create_trip", u, Malformed, Malformed, b, now)) IN
               /\ DOMAIN st.w.trips = DOMAIN trips \cup {nextOid}
               /\ st.w.trips[nextOid].owner_id = u
               /\ \A t \in DOMAIN trips : st.w.trips[t] = trips[t]
        /\ \A tid \in SentTripIds :
               \A rq \in AllRequests(u, tid) :
                   \A t \in DOMAIN trips \cap DOMAIN Out(rq).w.trips :
                       Out(rq).w.trips[t].owner_id = trips[t].owner_id

\* a trip that was joined and given two sub-resources, still owned by a user
\* who is not a collaborator, and whose owner's update_trip changes it
C4_Witness ==
    \E t \in DOMAIN trips :
        /\ trips[t].collaborators # <<>>
        /\ trips[t].owner_id \notin Range(trips[t].collaborators)
        /\ Len(trips[t].activities) + Len(trips[t].expenses)
               + Len(trips[t].packing_items) >= 2
        /\ LET st == Out(Rq("update_trip", trips[t].owner_id, IdStr(t), Malformed,
                            [title |-> Some("B"), budget |-> None], now))
           IN  st.w.trips[t] # trips[t] /\ st.w.trips[t].owner_id = trips[t].owner_id

\* C5: an update of an activity, expense or packing item whose identifier
\* is not in the trip's collection fails with 404, for every user with
\* access to the trip.
C5_UpdateAbsentFails ==
    \A t \in DOMAIN trips, u \in UserIds, coll \in Collections :
        \A sid \in WellFormedSubIds, b \in SentBodies(coll) :
            (canAccess(trips[t], u) /\ ObjectId(sid) \notin IdsOf(trips[t][coll]))
                => Resp(Rq(UpdateOp(coll), u, IdStr(t), sid, b, now)).code = 404

\* the mutations of the embedded collections
SubMutationOps ==
    {CreateOp(coll) : coll \in Collections} \cup {UpdateOp(coll) : coll \in Collections}
    \cup {DeleteOp(coll) : coll \in Collections}
    \cup {"toggle_packing_item", "reorder_activities"}
CreateOps == {CreateOp(coll) : coll \in Collections}

\* the sub-resources a mutation in flight targets: the element it creates,
\* the element its path names, the elements its reorder list names
Targets(rq) ==
    IF rq.op \in CreateOps
    THEN {rq.dict[i]["_id"] : i \in 1..Len(rq.dict)}
    ELSE IF rq.op = "reorder_activities"
    THEN {ObjectId(rq.body.activity_orders[i].activity_id) :
             i \in {j \in 1..Len(rq.body.activity_orders) :
                       is_valid(rq.body.activity_orders[j].activity_id)}}
    ELSE IF is_valid(rq.sub_id) THEN {ObjectId(rq.sub_id)} ELSE {}

\* the request of slot r as it was sent
Sent(rq) == Rq(rq.op, rq.user, rq.trip_id, rq.sub_id, rq.body, rq.t)

\* the store after rq is served alone in w; a create generates the ObjectId
\* it generated in the interleaved run
Alone(w, rq) ==
    Handle([w EXCEPT !.oid = IF rq.op \in CreateOps /\ rq.dict # None
                              THEN rq.dict[1]["_id"] ELSE @],
           Sent(rq)).w

\* the orders in which the requests of the slots can be served one by one
Orders == {p \in [Slots -> Slots] : \A i, j \in Slots : p[i] = p[j] => i = j}

RECURSIVE Sequential(_, _)
Sequential(p, n) ==
    IF n = 0 THEN BaseWorld ELSE Alone(Sequential(p, n - 1), reqs[p[n]])

AllDone == \A r \in Slots : reqs[r].pc = "done"
DifferentTargets ==
    /\ \A r \in Slots : reqs[r].op \in SubMutationOps /\ Targets(reqs[r]) # {}
    /\ \A r1, r2 \in Slots : r1 # r2 => Targets(reqs[r1]) \cap Targets(reqs[r2]) = {}

\* C6: when the requests in flight are mutations by the owner and a
\* collaborator of one trip that target different sub-resources, then under
\* every interleaving of their store round trips, once all have responded,
\* all have succeeded and the trips collection equals the one that serving
\* them one after the other in some order produces.
C6_DifferentSubResources ==
    (AllDone /\ DifferentTargets) =>
        /\ \A r \in Slots : reqs[r].resp.code = 200
        /\ \E p \in Orders : trips = Sequential(p, MaxInflight).trips

\* two writes of two handlers have interleaved: each handler had loaded the
\* trip before the other one wrote
C6_Witness ==
    /\ AllDone
    /\ DifferentTargets
    /\ \E r1, r2 \in Slots :
          /\ reqs[r1].op = "update_activity"
          /\ reqs[r2].op = "create_activity"
          /\ reqs[r1].snap = reqs[r2].snap
          /\ Len(trips[1].activities) = 3

\* C7: join_trip on a stored trip: by the owner it fails with "already
\* owner", by a collaborator with "already collaborator", the store unchanged
\* in both cases; by any other user it appends the user's id to the
\* collaborators, once, changes nothing else and returns the updated trip.
C7_JoinTrip ==
    \A t \in DOMAIN trips, u \in UserIds :
        LET st == Out(Rq("join_trip", u, IdStr(t), Malformed, NoBody, now))
            resp == st.rq.resp IN
        IF u = trips[t].owner_id
        THEN IsError(resp, 400, "You are already the owner of this trip") /\ st.w = World
        ELSE IF u \in Range(trips[t].collaborators)
        THEN /\ IsError(resp, 400, "You are already a collaborator of this trip")
             /\ st.w = World
        ELSE /\ resp.code = 200
             /\ st.w = [World EXCEPT !.trips[t].collaborators = Append(@, u)]
             /\ Count(st.w.trips[t].collaborators, u) = 1
             /\ resp.body = Some(Trip(t, st.w.trips[t]))
             /\ u \in Range(resp.body[1].collaborators)

\* a trip that a user has joined: the user's next join is refused, the
\* owner's too, and a third user's join is accepted
C7_Witness ==
    \E t \in DOMAIN trips, c, o \in UserIds :
        /\ c \in Range(trips[t].collaborators) /\ c # trips[t].owner_id
        /\ ~canAccess(trips[t], o)
        /\ Resp(Rq("join_trip", c, IdStr(t), Malformed, NoBody, now)).code = 400
        /\ Resp(Rq("join_trip", trips[t].owner_id, IdStr(t), Malformed, NoBody, now)).code
               = 400
        /\ Resp(Rq("join_trip", o, IdStr(t), Malformed, NoBody, now)).code = 200

\* C8: when the owner adds the same registered user's email twice in
\* succession, the second call succeeds and leaves the collaborators as the
\* first call left them.
C8_AddTwice ==
    \A t \in DOMAIN trips, e \in Emails :
        LET rq == Rq("add_collaborator", trips[t].owner_id, IdStr(t), Malformed,
                     [user_email |-> e], now)
            first == Out(rq)
            second == Handle(first.w, rq) IN
        find_user(World, e) # None =>
            /\ first.rq.resp.code = 200
            /\ second.rq.resp.code = 200
            /\ second.w.trips[t].collaborators = first.w.trips[t].collaborators
            /\ second.w = first.w

\* the owner adds a user who is not yet a collaborator: the first call
\* appends the user, the second changes nothing
C8_Witness ==
    \E t \in DOMAIN trips, i \in 1..Len(users) :
        LET rq == Rq("add_collaborator", trips[t].owner_id, IdStr(t), Malformed,
                     [user_email |-> users[i].email], now)
            first == Out(rq) IN
        /\ trips[t].collaborators # <<>>
        /\ User(users[i]).id \notin Range(trips[t].collaborators)
        /\ first.w.trips[t].collaborators = Append(trips[t].collaborators, User(users[i]).id)
        /\ Handle(first.w, rq).w = first.w

\* every request a user can send for trip id tid, sub-resource ids well-formed
LaterRequests(tid) == UNION {AllRequests(u, tid) : u \in UserIds}

\* the ids of trips that are not stored (any more)
Gone == (1..(nextOid - 1)) \ DOMAIN trips

C9_NotFound ==
    \A t \in Gone : \A rq \in LaterRequests(IdStr(t)) :
        /\ IsError(Resp(rq), 404, "Trip not found")
        /\ Out(rq).w = World

C9_NotRecreated == \A t \in DOMAIN trips' : t \in DOMAIN trips \/ t >= nextOid

\* C9: once a trip is not stored any more, every request addressing it
\* (well-formed identifiers) fails with 404 "Trip not found", returns no
\* data and changes nothing, and no step of any handler, whether it started
\* before or after the deletion, stores a trip under that id again.
C9_DeletedTrip == [](C9_NotFound) /\ [][C9_NotRecreated]_vars

\* delete_trip has succeeded while a create_activity that had passed its
\* checks was in flight; that request has run to its end and the trip is
\* not stored
C9_Witness ==
    \E r1, r2 \in Slots :
        /\ reqs[r1].op = "delete_trip"
        /\ reqs[r1].resp.code = 200
        /\ reqs[r2].op = "create_activity"
        /\ reqs[r2].snap # None
        /\ reqs[r2].pc = "done"
        /\ 1 \notin DOMAIN trips
\* C11: a PUT to /activities/{trip_id}/reorder with a reorder list, sent by
\* a user with access to the stored trip, is handled by reorder_activities:
\* it is answered as that handler answers it and changes the store as that
\* handler changes it.
C11_ReorderDispatched ==
    \A t \in DOMAIN trips, u \in UserIds, b \in SentReorders :
        canAccess(trips[t], u) =>
            LET sent == Receive(activities_router, "PUT",
                                <<IdStr(t), PathText("reorder")>>, u, b, now)
            IN  /\ sent.op = "reorder_activities"
                /\ Out(sent) = Out(Rq("reorder_activities", u, IdStr(t), Malformed, b, now))

\* list without its element at index i
RemoveAt(list, i) ==
    [j \in 1..(Len(list) - 1) |-> IF j < i THEN list[j] ELSE list[j + 1]]

\* C12: a delete of an activity, expense or packing item by a user with
\* access returns success; when one element has the identifier, the
\* collection afterwards is the collection without that element, the others
\* in their order; when none has, the store is unchanged; nothing else
\* changes, and the same delete repeated returns success and changes
\* nothing.  delete_trip for an identifier under which no trip is stored
\* fails with 404 "Trip not found".
C12_DeleteIdempotent ==
    /\ \A t \in DOMAIN trips, u \in UserIds, coll \in Collections, sid \in WellFormedSubIds :
          canAccess(trips[t], u) =>
              LET rq == Rq(DeleteOp(coll), u, IdStr(t), sid, NoBody, now)
                  st == Out(rq)
                  old == trips[t][coll]
                  at == {i \in 1..Len(old) : old[i]["_id"] = ObjectId(sid)}
              IN  /\ st.rq.resp.code = 200
                  /\ Cardinality(at) <= 1
                  /\ \A i \in at :
                        st.w = [World EXCEPT !.trips[t][coll] = RemoveAt(old, i)]
                  /\ at = {} => st.w = World
                  /\ Handle(st.w, rq).w = st.w
                  /\ Handle(st.w, rq).rq.resp.code = 200
    /\ \A tid \in TripIdStrs \ {Malformed}, u \in UserIds :
          ObjectId(tid) \notin DOMAIN trips =>
              LET st == Out(Rq("delete_trip", u, tid, Malformed, NoBody, now))
              IN  IsError(st.rq.resp, 404, "Trip not found") /\ st.w = World

\* a delete removes one of two activities and keeps the other
C12_Witness ==
    \E t \in DOMAIN trips :
        LET old == trips[t].activities
            st == Out(Rq("delete_activity", trips[t].owner_id, IdStr(t),
                         IdStr(old[1]["_id"]), NoBody, now))
        IN  /\ Len(old) = 2
            /\ st.w.trips[t].activities = <<old[2]>>
            /\ st.rq.resp.code = 200

\* C13: an update of an activity, expense or packing item whose identifier X
\* an element of the collection has, by a user with access, returns success;
\* afterwards the collection has the same length, exactly one element has
\* identifier X, that element stands where the old one stood and consists of
\* the submitted fields and the identifier, and every other element, every
\* other collection and every other field of the trip is unchanged.
C13_UpdateReplaces ==
    \A t \in DOMAIN trips, u \in UserIds, coll \in Collections, sid \in WellFormedSubIds :
        \A b \in SentBodies(coll) :
            (canAccess(trips[t], u) /\ ObjectId(sid) \in IdsOf(trips[t][coll])) =>
                LET st == Out(Rq(UpdateOp(coll), u, IdStr(t), sid, b, now))
                    old == trips[t][coll]
                    new == st.w.trips[t][coll]
                    at == {i \in 1..Len(new) : new[i]["_id"] = ObjectId(sid)}
                IN  /\ st.rq.resp.code = 200
                    /\ st.w = [World EXCEPT !.trips[t][coll] = new]
                    /\ Len(new) = Len(old)
                    /\ Cardinality(at) = 1
                    /\ \A i \in 1..Len(new) :
                          IF i \in at
                          THEN /\ old[i]["_id"] = ObjectId(sid)
                               /\ DOMAIN new[i] = DOMAIN b \cup {"_id"}
                               /\ \A f \in DOMAIN b : new[i][f] = b[f]
                          ELSE new[i] = old[i]

\* the second of two activities is replaced by a value with another title
C13_Witness ==
    \E t \in DOMAIN trips :
        LET old == trips[t].activities
            st == Out(Rq("update_activity", trips[t].owner_id, IdStr(t),
                         IdStr(old[2]["_id"]),
                         [id |-> IdStr(1), title |-> "a2", order |-> 0], now))
        IN  /\ Len(old) = 2
            /\ old[2].title = "a1"
            /\ st.w.trips[t].activities[1] = old[1]
            /\ st.w.trips[t].activities[2].title = "a2"

\* C14: toggle_packing_item by a user with access, on a well-formed
\* identifier: when a packing item of the trip has it, the request returns
\* the negation of the item's stored packed flag and stores it, changing no
\* other item and no other field, and the same request once more restores
\* the store; when no item has it, the request fails with 404 "Packing item
\* not found" and changes nothing.
C14_Toggle ==
    \A t \in DOMAIN trips, u \in UserIds, sid \in WellFormedSubIds :
        canAccess(trips[t], u) =>
            LET rq == Rq("toggle_packing_item", u, IdStr(t), sid, NoBody, now)
                st == Out(rq)
                old == trips[t].packing_items
                at == {i \in 1..Len(old) : old[i]["_id"] = ObjectId(sid)}
            IN  IF at = {}
                THEN IsError(st.rq.resp, 404, "Packing item not found") /\ st.w = World
                ELSE \A i \in at :
                        /\ st.rq.resp.code = 200
                        /\ st.rq.resp.body = Some([packed |-> ~old[i].packed])
                        /\ st.w = [World EXCEPT
                                     !.trips[t].packing_items[i].packed = ~old[i].packed]
                        /\ Handle(st.w, rq).w = World

RECURSIVE FloatSum(_)
\* the float sum of a sequence of floats, added from left to right
FloatSum(amounts) ==
    IF amounts = <<>> THEN 0
    ELSE fadd(FloatSum(SubSeq(amounts, 1, Len(amounts) - 1)), amounts[Len(amounts)])

AmountsOf(expenses) == [i \in 1..Len(expenses) |-> expenses[i].amount]
InCategory(expenses, c) == SelectSeq(expenses, LAMBDA e : e.category = c)

RECURSIVE ValuesSum(_)
\* the float sum of the values of a mapping
ValuesSum(f) ==
    IF DOMAIN f = {} THEN 0
    ELSE LET c == CHOOSE c \in DOMAIN f : TRUE
         IN  fadd(ValuesSum([d \in DOMAIN f \ {c} |-> f[d]]), f[c])

\* C15: the expense summary of a trip, for a user with access: total_spent
\* is the sum of the amounts of the trip's expenses, remaining is budget
\* minus total_spent, category_breakdown maps exactly the categories that
\* occur to the sum of the amounts of their expenses, and the values of
\* category_breakdown sum to total_spent.  Sums and differences are those
\* of float arithmetic.
C15_ExpenseSummary ==
    \A t \in DOMAIN trips, u \in UserIds :
        canAccess(trips[t], u) =>
            LET resp == Resp(Rq("get_expense_summary", u, IdStr(t), Malformed, NoBody, now))
                summary == resp.body[1]
                expenses == trips[t].expenses
            IN  /\ resp.code = 200
                /\ summary.total_spent = FloatSum(AmountsOf(expenses))
                /\ summary.remaining = fsub(trips[t].budget, summary.total_spent)
                /\ DOMAIN summary.category_breakdown =
                       {expenses[i].category : i \in 1..Len(expenses)}
                /\ \A c \in DOMAIN summary.category_breakdown :
                       summary.category_breakdown[c] =
                           FloatSum(AmountsOf(InCategory(expenses, c)))
                /\ ValuesSum(summary.category_breakdown) = summary.total_spent

RECURSIVE TotalCounts(_)
\* the sum of the total_count of the groups
TotalCounts(groups) ==
    IF DOMAIN groups = {} THEN 0
    ELSE LET c == CHOOSE c \in DOMAIN groups : TRUE
         IN  TotalCounts([d \in DOMAIN groups \ {c} |-> groups[d]]) + groups[c].total_count

\* the groups of the packing-categories view of trip t for user u
GroupsOf(t, u) ==
    Resp(Rq("get_packing_categories", u, IdStr(t), Malformed, NoBody, now)).body[1]

\* C16: the packing-categories view of a trip, for a user with access, has
\* one group for every category that occurs among the trip's packing items
\* and no other; every item of the trip is in the items list of the group of
\* its category, once, and in no other group; a group's total_count is the
\* length of its items list and its packed_count the number of its items
\* with packed true; the total_counts sum to the number of packing items.
C16_PackingCategories ==
    \A t \in DOMAIN trips, u \in UserIds :
        canAccess(trips[t], u) =>
            LET groups == GroupsOf(t, u)
                items == Map(trips[t].packing_items, SubModel)
            IN  /\ DOMAIN groups = {items[i].category : i \in 1..Len(items)}
                /\ \A i \in 1..Len(items), c \in DOMAIN groups :
                      Count(groups[c].items, items[i]) =
                          IF c = items[i].category THEN 1 ELSE 0
                /\ \A c \in DOMAIN groups :
                      /\ Range(groups[c].items) \subseteq Range(items)
                      /\ groups[c].total_count = Len(groups[c].items)
                      /\ groups[c].packed_count =
                             Cardinality({j \in 1..Len(groups[c].items) :
                                             groups[c].items[j].packed})
                      /\ 0 <= groups[c].packed_count
                      /\ groups[c].packed_count <= groups[c].total_count
                /\ TotalCounts(groups) = Len(items)

\* two groups, one of them with two items of which one is packed
C16_Witness ==
    \E t \in DOMAIN trips :
        LET groups == GroupsOf(t, trips[t].owner_id) IN
        /\ Cardinality(DOMAIN groups) = 2
        /\ \E c \in DOMAIN groups :
              groups[c].total_count = 2 /\ groups[c].packed_count = 1

\* the identifiers a client can put into a body: those generated so far
KnownIds == {IdStr(n) : n \in 1..(nextOid - 1)} \cup {UpperIdStr(n) : n \in 1..(nextOid - 1)}

\* the activities a user is shown for trip t in store w
Listing(w, u, t) ==
    Handle(w, Rq("get_trip_activities", u, IdStr(t), Malformed, NoBody, now)).rq.resp.body[1]

\* C17: create_activity by a user with access returns an activity with the
\* submitted title and order and an identifier that differs from the
\* identifier in the request body and from every identifier generated
\* before; reading the trip's activities afterwards returns the activities
\* listed before followed by exactly the returned activity, under the
\* returned identifier.
C17_CreateThenRead ==
    \A t \in DOMAIN trips, u \in UserIds, cid \in KnownIds, title \in {"a1", "a2"} :
        canAccess(trips[t], u) =>
            LET b == [id |-> cid, title |-> title, order |-> 0]
                st == Out(Rq("create_activity", u, IdStr(t), Malformed, b, now))
                created == st.rq.resp.body[1]
                before == Listing(World, u, t)
                after == Listing(st.w, u, t)
            IN  /\ st.rq.resp.code = 200
                /\ created.title = b.title /\ created.order = b.order
                /\ created.id # PyObjectId(cid)
                /\ created.id \notin KnownIds
                /\ after = Append(before, created)
                /\ Count(after, created) = 1
                /\ \A i \in 1..Len(before) : before[i].id # created.id

\* a stored activity is listed under its generated identifier, which is
\* not the identifier its body carried, after one more activity is created
C17_Witness ==
    \E t \in DOMAIN trips :
        LET u == trips[t].owner_id
            st == Out(Rq("create_activity", u, IdStr(t), Malformed,
                         [id |-> IdStr(t), title |-> "a2", order |-> 0], now))
            after == Listing(st.w, u, t)
        IN  /\ Len(trips[t].activities) = 1
            /\ Len(after) = 2
            /\ after[2].id = st.rq.resp.body[1].id
            /\ after[2].id # IdStr(t)
            /\ after[1].id = IdStr(trips[t].activities[1]["_id"])
            /\ after[1].id # trips[t].activities[1].id

\* reorder lists of up to two entries whose identifiers are present, absent,
\* upper-case or malformed
ReorderLists ==
    LET entries == [activity_id : SubIdStrs, order : {1, 2}]
    IN  {<<>>} \cup {<<a>> : a \in entries} \cup {<<a, b>> : a, b \in entries}

\* the order an activity has after the list was applied entry by entry: that
\* of the last entry naming it, its own if no entry names it
OrderAfter(activity, list) ==
    LET hits == {i \in 1..Len(list) : /\ is_valid(list[i].activity_id)
                                      /\ ObjectId(list[i].activity_id) = activity["_id"]}
    IN  IF hits = {} THEN activity.order
        ELSE list[CHOOSE i \in hits : \A j \in hits : j <= i].order

\* C10: reorder_activities with a list in which some identifiers are
\* malformed or absent from the trip returns success, sets the order of every
\* activity the list names by a valid identifier, and changes no other
\* activity, no other field and nothing else in the store.
C10_Reorder ==
    \A t \in DOMAIN trips, u \in UserIds, list \in ReorderLists :
        canAccess(trips[t], u) =>
            LET st == Out(Rq("reorder_activities", u, IdStr(t), Malformed,
                             [activity_orders |-> list], now))
                expected == [i \in 1..Len(trips[t].activities) |->
                                [trips[t].activities[i] EXCEPT
                                    !.order = OrderAfter(trips[t].activities[i], list)]]
            IN  /\ st.rq.resp.code = 200
                /\ st.rq.resp.body = Some(Message("Activities reordered successfully"))
                /\ st.w = [World EXCEPT !.trips[t].activities = expected]

\* a trip with two activities: a list naming a malformed identifier, then
\* the second activity, reorders the second activity and nothing else
C10_Witness ==
    \E t \in DOMAIN trips :
        /\ Len(trips[t].activities) = 2
        /\ trips[t].activities[2].order = 0
        /\ LET a == trips[t].activities
               st == Out(Rq("reorder_activities", trips[t].owner_id, IdStr(t), Malformed,
                            [activity_orders |->
                                << [activity_id |-> Malformed, order |-> 1],
                                   [activity_id |-> str(a[2]["_id"]), order |-> 2] >>],
                            now))
           IN  /\ st.rq.resp.code = 200
               /\ st.w.trips[t].activities = <<a[1], [a[2] EXCEPT !.order = 2]>>

(***************************************************************************)
(* Authentication (SpecAuth).                                              *)
(***************************************************************************)
RegisterRq(e, p) ==
    Rq("register", "", Malformed, Malformed, [email |-> e, password |-> p], now)
LoginRq(e, p) ==
    Rq("login", "", Malformed, Malformed, [email |-> e, password |-> p], now)
ChangePasswordRq(u, cur, new) ==
    Rq("change_password", u, Malformed, Malformed,
       [current_password |-> cur, new_password |-> new], now)

Registered(w, e) == find_user(w, e) # None

\* the account of email e exists and password p matches its stored hash
Matches(w, e, p) ==
    /\ Registered(w, e)
    /\ find_user(w, e)[1].hashed_password = get_password_hash(p)

\* C18: user emails are unique.  In every reachable state, register and
\* OAuth first logins for the same email interleaved included, at most one
\* user document has a given email, and a register for an email that is
\* already registered fails with 400 "Email already registered" and adds no
\* user.
C18_EmailsUnique ==
    /\ \A i, j \in 1..Len(users) : users[i].email = users[j].email => i = j
    /\ \A e \in Emails :
          Registered(World, e) =>
              LET st == Out(RegisterRq(e, "p9"))
              IN  /\ IsError(st.rq.resp, 400, "Email already registered")
                  /\ st.w = World

\* C19: a failed login answers 401 "Incorrect email or password" whether the
\* email has no account or the account's hash does not match the password,
\* and login succeeds with a credential exactly when the account exists and
\* the password matches its stored hash.
C19_LoginGeneric ==
    \A e \in Emails, p \in Passwords :
        LET st == Out(LoginRq(e, p))
        IN  /\ st.w = World
            /\ IF Matches(World, e, p)
               THEN /\ st.rq.resp.code = 200
                    /\ st.rq.resp.body = Some(Token(e))
               ELSE IsError(st.rq.resp, 401, "Incorrect email or password")

\* C20: change-password by an authenticated user with their correct current
\* password succeeds and replaces the stored hash of that user's document
\* and of no other, so that a login with the new password then succeeds and
\* one with the old password fails; with an incorrect current password it
\* fails and the store is unchanged.
C20_ChangePassword ==
    \A i \in 1..Len(users), cur \in Passwords, new \in Passwords :
        LET user == User(users[i])
            st == Out(ChangePasswordRq(user.id, cur, new))
        IN  (\A j \in 1..Len(users) : users[j].email = user.email => j = i) =>
            IF Matches(World, user.email, cur)
            THEN /\ st.rq.resp.code = 200
                 /\ st.w = [World EXCEPT !.users[i].hashed_password =
                                              get_password_hash(new)]
                 /\ Handle(st.w, LoginRq(user.email, new)).rq.resp.code = 200
                 /\ new # cur =>
                      Handle(st.w, LoginRq(user.email, cur)).rq.resp.code = 401
            ELSE /\ st.rq.resp.code >= 400
                 /\ st.w = World

(***************************************************************************)
(* Order of the checks of a trip-addressed request.                        *)
(***************************************************************************)
\* the handlers that take a sub-resource identifier in the path
SubIdOps == {UpdateOp(coll) : coll \in Collections}
            \cup {DeleteOp(coll) : coll \in Collections}
            \cup {"toggle_packing_item"}

\* the requests of user u on trip id tid behind the owner-or-collaborator
\* check, sub-resource identifiers of every form
GatedRequests(u, tid) ==
    CollectionRequests(u, tid)
    \cup {Rq(op, u, tid, sid, b, now) :
             op \in SubIdOps, sid \in SubIdStrs, b \in SentBodies("activities")}
    \cup {Rq(op, u, tid, Malformed, NoBody, now) : op \in TripRouterReadOps}

\* the other requests that name a trip in the path
OtherTripRequests(u, tid) ==
    ManageRequests(u, tid) \cup {Rq("join_trip", u, tid, Malformed, NoBody, now)}

InvalidIds(rq) ==
    ~is_valid(rq.trip_id) \/ (rq.op \in SubIdOps /\ ~is_valid(rq.sub_id))

Stored(tid) == \E t \in DOMAIN trips : tid = IdStr(t)

TripDetailFields == {"title", "budget"}

\* the document of trip t after a $set of the supplied fields at time t_read
DetailsSet(doc, update_data, t_read) ==
    [f \in DOMAIN doc |->
        IF f \in DOMAIN update_data THEN update_data[f]
        ELSE IF f = "updated_at" THEN t_read
        ELSE doc[f]]

\* C22: update_trip by the owner changes the trip-detail fields supplied
\* with a non-null value and updated_at, and nothing else: owner_id,
\* collaborators, the three collections, created_at, the other trips and the
\* users are as before.  A request that supplies no field changes nothing,
\* updated_at included.
C22_UpdateTripFrame ==
    \A t \in DOMAIN trips, b \in TripUpdateBodies, t_read \in now..(MaxNow + 1) :
        LET st == Out(Rq("update_trip", trips[t].owner_id, IdStr(t), Malformed, b, t_read))
            supplied == {f \in DOMAIN b : b[f] # None}
            update_data == [f \in supplied |-> b[f][1]]
        IN  /\ st.rq.resp.code = 200
            /\ supplied \subseteq TripDetailFields
            /\ IF supplied = {} THEN st.w = World
               ELSE st.w = [World EXCEPT
                               !.trips[t] = DetailsSet(@, update_data, t_read),
                               !.now = t_read]
            /\ st.rq.resp.body = Some(Trip(t, st.w.trips[t]))

\* a trip with a collaborator, last written before the clock reading 2: an
\* update of its title alone at 2 changes title and updated_at and no other
\* field, and an update that supplies nothing leaves updated_at as it was
C22_Witness ==
    \E t \in DOMAIN trips :
        /\ trips[t].collaborators # <<>>
        /\ trips[t].updated_at = 1
        /\ trips[t].created_at = 0
        /\ trips[t].title = "B"
        /\ LET owner == trips[t].owner_id
               st == Out(Rq("update_trip", owner, IdStr(t), Malformed,
                            [title |-> Some("A"), budget |-> None], 2))
               st0 == Out(Rq("update_trip", owner, IdStr(t), Malformed,
                             [title |-> None, budget |-> None], 2))
           IN  /\ st.w.trips[t] = [trips[t] EXCEPT !.title = "A", !.updated_at = 2]
               /\ st0.w.trips[t].updated_at = 1

(***************************************************************************)
(* The websocket rooms (SpecWs).                                           *)
(***************************************************************************)
\* connection x is in the list of trip_id
Registered_ws(x, trip_id) ==
    trip_id \in DOMAIN active_connections /\ x \in Range(active_connections[trip_id])

\* the endpoint of c has broadcast a text and awaits the next one
Broadcast(c) == tasks[c].pc = "receive" /\ tasks[c].texts > 0

\* C23: a text received on a websocket of trip T goes to every connection of
\* T's room whose send succeeds and to no connection of another trip.  Once
\* the broadcast is over, every connection that was in T's list when it
\* started and is still in it, its client still there, has been sent the
\* text, also when another connection of the room was broken and dropped
\* during the broadcast; and every connection sent to is one of trip T.
C23_Broadcast ==
    \A c \in Conns :
        Broadcast(c) =>
            /\ \A x \in Range(tasks[c].room) :
                  Registered_ws(x, tasks[c].trip) /\ sockets[x] = "open" =>
                      x \in tasks[c].sent
            /\ \A x \in tasks[c].sent : tasks[x].trip = tasks[c].trip

\* C30: a trip id is a key of active_connections only with at least one
\* connection in its list, and the disconnect of a connection that connect
\* accepted does not raise.
C30_Registry ==
    /\ \A trip_id \in DOMAIN active_connections : active_connections[trip_id] # <<>>
    /\ \A c \in Conns : tasks[c].pc # "disconnect_raised"

(***************************************************************************)
(* Password reset (SpecReset).                                             *)
(***************************************************************************)
\* the stored reset requests of token k that have not expired at time t
LiveResets(k, t) ==
    {i \in 1..Len(password_resets) :
        password_resets[i].token = k /\ password_resets[i].expires_at > t}

\* request rq is a confirmation that has passed the token check
Confirmed(rq) ==
    /\ rq.op = "password_reset_confirm"
    /\ rq.pc \in {"update", "delete"} \/ (rq.pc = "done" /\ rq.resp.code = 200)

\* C27: a password-reset token is single-use and time-limited.  A
\* confirmation succeeds only for a stored token whose expiry is later than
\* the clock; after it has succeeded, a confirmation with the same token
\* fails with 400 "Invalid or expired reset token" and changes nothing; a
\* confirmation with any other token fails the same way; and of the
\* confirmations in flight with the same token at most one gets to change
\* the password.
C27_ResetToken ==
    /\ \A k \in Range(ResetTokens), p \in Passwords, t \in now..(TokenLife + 1) :
          LET st == Out(ResetConfirm(k, p, t)) IN
          IF LiveResets(k, t) # {}
          THEN /\ st.rq.resp.code = 200
               /\ LET again == Handle(st.w, ResetConfirm(k, "p1", t)) IN
                  /\ IsError(again.rq.resp, 400, "Invalid or expired reset token")
                  /\ again.w = st.w
          ELSE /\ IsError(st.rq.resp, 400, "Invalid or expired reset token")
               /\ st.w = World
    /\ \A r1, r2 \in Slots :
          /\ Confirmed(reqs[r1])
          /\ Confirmed(reqs[r2])
          /\ reqs[r1].body.token = reqs[r2].body.token
          => r1 = r2

(***************************************************************************)
(* Races on one target (SpecConc).                                         *)
(***************************************************************************)
\* C24: the collaborators list of a trip never holds the same user id twice,
\* in any reachable state, add_collaborator and join_trip requests for the
\* same user interleaved at their awaits included.
C24_CollaboratorsDistinct ==
    \A t \in DOMAIN trips :
        \A i, j \in 1..Len(trips[t].collaborators) :
            trips[t].collaborators[i] = trips[t].collaborators[j] => i = j

RECURSIVE Interleavings(_, _, _)
\* requests a and b run from store w, giving way to each other at their
\* awaits: the store and the two requests at the end of every schedule
Interleavings(w, a, b) ==
    IF a.pc = "done" /\ b.pc = "done" THEN {[w |-> w, a |-> a, b |-> b]}
    ELSE (IF a.pc = "done" THEN {}
          ELSE LET st == Step(w, a) IN Interleavings(st.w, st.rq, b))
         \cup
         (IF b.pc = "done" THEN {}
          ELSE LET st == Step(w, b) IN Interleavings(st.w, a, st.rq))

\* reorder lists that name activity x of list activities, alone or with
\* another activity of the list
ListsNaming(activities, x) ==
    LET entry(y) == [activity_id |-> str(y), order |-> 2]
        others == IdsOf(activities) \ {x}
    IN  {<<entry(x)>>}
        \cup {<<entry(x), entry(y)>> : y \in others}
        \cup {<<entry(y), entry(x)>> : y \in others}

\* the update, toggle and reorder requests of user u that write element x of
\* collection coll of trip t
WritesOf(u, t, coll, x) ==
    {Rq(UpdateOp(coll), u, IdStr(t), str(x), b, now) : b \in SentBodies(coll)}
    \cup (IF coll = "packing_items"
          THEN {Rq("toggle_packing_item", u, IdStr(t), str(x), NoBody, now)}
          ELSE {})
    \cup (IF coll = "activities"
          THEN {Rq("reorder_activities", u, IdStr(t), Malformed,
                   [activity_orders |-> list], now) :
                   list \in ListsNaming(trips[t].activities, x)}
          ELSE {})

\* collection list without element x, the others as request rq alone leaves
\* them: a reorder sets the order of the other activities it names
WithoutTarget(list, x, rq) ==
    LET k == CHOOSE i \in 1..Len(list) : list[i]["_id"] = x
        rest == RemoveAt(list, k)
    IN  IF rq.op = "reorder_activities"
        THEN [i \in 1..Len(rest) |->
                 [rest[i] EXCEPT !.order = OrderAfter(rest[i], rq.body.activity_orders)]]
        ELSE rest

\* C25: an update, toggle or reorder of sub-resource X that races with a
\* delete of X never brings X back.  Under every schedule of the two
\* requests' store round trips, those where the delete writes first
\* included, the delete succeeds, X is absent from the collection at the
\* end, the other elements are as the other request alone leaves them (an
\* update or toggle leaves them unchanged), and nothing else in the store
\* has changed.
C25_NoResurrection ==
    \A t \in DOMAIN trips, coll \in Collections, u, v \in UserIds :
        canAccess(trips[t], u) /\ canAccess(trips[t], v) =>
            \A x \in IdsOf(trips[t][coll]) :
                \A rq \in WritesOf(u, t, coll, x) :
                    \A end \in Interleavings(World, rq,
                                             Rq(DeleteOp(coll), v, IdStr(t), str(x),
                                                NoBody, now)) :
                        /\ end.b.resp.code = 200
                        /\ x \notin IdsOf(end.w.trips[t][coll])
                        /\ end.w = [World EXCEPT !.trips[t][coll] =
                                                     WithoutTarget(@, x, rq)]

\* a trip with two activities: the update of the first reads the trip, the
\* delete of the first then runs to its end, and the update's write comes
\* last; the update answers 200, the first activity is gone and the second
\* is as it was
C25_Witness ==
    \E t \in DOMAIN trips :
        /\ Len(trips[t].activities) = 2
        /\ LET a == trips[t].activities
               u == trips[t].owner_id
               read == Step(World, Rq("update_activity", u, IdStr(t), str(a[1]["_id"]),
                                      [id |-> IdStr(1), title |-> "a2", order |-> 0], now))
               deleted == Handle(read.w, Rq("delete_activity", u, IdStr(t),
                                            str(a[1]["_id"]), NoBody, now))
               written == Handle(deleted.w, read.rq)
           IN  /\ read.rq.pc = "update"
               /\ a[1].title = "a1"
               /\ deleted.w.trips[t].activities = <<a[2]>>
               /\ written.rq.resp.code = 200
               /\ written.w.trips[t].activities = <<a[2]>>

\* the packing item with identifier x of trip t in store w
ItemOf(w, t, x) ==
    LET list == w.trips[t].packing_items
    IN  list[CHOOSE i \in 1..Len(list) : list[i]["_id"] = x]

\* request rq is a toggle that has answered 200
Toggled(rq) == rq.op = "toggle_packing_item" /\ rq.pc = "done" /\ rq.resp.code = 200

\* C26: toggles of one packing item are not lost.  When two toggle requests
\* for the same item were in flight together and both have answered, the
\* item's packed value is its original one (two flips), under every
\* interleaving of their reads and writes; and the value a toggle returns is
\* the value the item holds right after that toggle's write.
C26_TogglesNotLost ==
    /\ \A r1, r2 \in Slots :
          /\ r1 # r2
          /\ Toggled(reqs[r1])
          /\ Toggled(reqs[r2])
          /\ reqs[r1].trip_id = reqs[r2].trip_id
          /\ reqs[r1].sub_id = reqs[r2].sub_id
          => LET t == ObjectId(reqs[r1].trip_id)
                 x == ObjectId(reqs[r1].sub_id)
             IN  ItemOf(World, t, x).packed = ItemOf(BaseWorld, t, x).packed
    /\ \A r \in Slots :
          reqs[r].op = "toggle_packing_item" /\ reqs[r].pc = "update"
          /\ matches(World, ByElement(ObjectId(reqs[r].trip_id), "packing_items",
                                      ObjectId(reqs[r].sub_id)))
          => LET st == Step(World, reqs[r]) IN
             st.rq.resp.body =
                 Some([packed |-> ItemOf(st.w, ObjectId(reqs[r].trip_id),
                                         ObjectId(reqs[r].sub_id)).packed])

(***************************************************************************)
(* Weather (SpecWeather).                                                  *)
(***************************************************************************)
\* C28: when the weather service yields no forecast for the city (it returns
\* nothing: the city is unknown, the API refuses or fails, or a date does
\* not parse), GET /weather/{city} answers 404 "Weather forecast not
\* available for this location"; with a forecast it answers 200 and the
\* forecast.  The service turns its own exceptions into "nothing", so 500 is
\* not among the answers.
C28_NoForecast ==
    \A u \in UserIds, city \in Cities, start_date \in Dates, end_date \in Dates,
       openweather \in OpenWeather :
        LET forecast == service_get_weather_forecast(city, start_date, end_date,
                                                     openweather)
            resp == Resp(WeatherRq(u, city, start_date, end_date, openweather))
        IN  IF forecast = None
            THEN IsError(resp, 404, "Weather forecast not available for this location")
            ELSE resp.code = 200 /\ resp.body = forecast

(***************************************************************************)
(* Exports.                                                                *)
(***************************************************************************)
\* what user u reads on trip t with the handler op
Read(op, u, t) == Out(Rq(op, u, IdStr(t), Malformed, NoBody, now)).rq.resp

\* C29: the activities and expenses handed to the PDF, calendar and JSON
\* exports of a trip are the activities and expenses embedded in the trip
\* at the time of the request, the elements get_trip_activities and
\* get_trip_expenses return for it (the calendar export takes activities
\* only); an activity added by create_activity is in the next export.
C29_ExportsEmbedded ==
    \A t \in DOMAIN trips, u \in UserIds :
        canAccess(trips[t], u) =>
            \A op \in {"export_trip_pdf", "export_trip_calendar", "export_trip_json"} :
                LET export == Read(op, u, t) IN
                /\ export.code = 200
                /\ export.body[1].trip = Read("get_trip", u, t).body[1]
                /\ export.body[1].activities = Read("get_trip_activities", u, t).body[1]
                /\ op # "export_trip_calendar" =>
                      export.body[1].expenses = Read("get_trip_expenses", u, t).body[1]

=============================================================================
